---- MODULE Spec2Model ----
(***************************************************************************)
(* mstransfer: the receiver's transfer registry, its streaming upload,    *)
(* status and health routes and the api-key provider (server/state.py,    *)
(* server/routes.py, server/models.py, server/app.py, server/auth.py),    *)
(* and the sender: send_file, its status poller and send_batch            *)
(* (client/sender.py).                                                     *)
(*                                                                         *)
(* The server is a single asyncio event loop.  A coroutine runs without    *)
(* interruption between two awaits, so every action below is the code      *)
(* between two awaits of one request handler, cut further at each registry *)
(* call so that every value a record holds is a state of the model.  The   *)
(* variable `loop` names the handler that is inside such a block; nothing  *)
(* else runs on the loop until the block reaches its next await.           *)
(*                                                                         *)
(* Strings that the code takes apart (file names, paths) are sequences of  *)
(* tokens: "/" and "." are tokens of their own, every other token is a     *)
(* non-empty run of ordinary characters.  None is <<>> and a present value *)
(* v is <<v>> wherever the code distinguishes the two.                     *)
(***************************************************************************)
EXTENDS Integers, Sequences, FiniteSets, TLC

VARIABLES
    store_as,   \* AppState.store_as, fixed by create_app
    records,    \* TransferRegistry._records: transfer id -> TransferRecord
    files,      \* the output directory: path -> [ino, data]
    now,        \* the wall clock
    h,          \* the upload request handlers: position, request, locals, response
    loop,       \* the handler running on the event loop, 0 when the loop is free
    op,         \* the registry call made by the last step
    cap,        \* the most chunks a request body is cut into
    names,      \* the X-Original-Filename values clients send
    auth,       \* the key of the api-key provider, None when no auth is configured
    creds,      \* the credentials of the last request to a protected route
    reply,      \* the answer of the last health or status request
    sender,     \* the client: the locals of one send_file call and its poller
    batch,      \* the client: the locals of send_batch and its thread pool
    progress,   \* the client: the calls the progress listener has received
    resolver,   \* the client: the locals of one resolve_inputs call
    producer,   \* the client: one body producer and what it has yielded
    lock        \* TransferRegistry._lock: the thread holding it, 0 when free

vars == <<store_as, records, files, now, h, loop, op, cap, names, auth, creds, reply,
          sender, batch, progress, resolver, producer, lock>>

\* The client's variables: no step of the server touches them.
client == <<sender, batch, progress, resolver, producer>>

\* The input resolver and the body producers: they touch no other state.
inputs == <<resolver, producer>>

----------------------------------------------------------------------------
(* Bounds *)

NumHandlers == 2
MaxChunks == 2
MaxChunkLen == 1
MaxTime == 1
LongChunks == 65
MaxNameLen == 4

Handlers == 1..NumHandlers
TransferIds == { <<"t1">>, <<"t2">> }
FileNames == { <<"a", ".", "msz">>, <<"a", ".", "mzML">>, <<"b", ".", "msz">> }
StoreAsValues == {"msz", "mzml", "MZML"}
ErrorCauses == {"", "disk full"}
MaxAges == {0}

----------------------------------------------------------------------------
(* models.py *)

RECEIVING == "receiving"
RECEIVED == "received"
DECOMPRESSING == "decompressing"
DONE == "done"
ERROR == "error"

TransferState == {RECEIVING, RECEIVED, DECOMPRESSING, DONE, ERROR}

None == <<>>
Some(v) == <<v>>

TransferRecord(transfer_id, filename, created_at) ==
    [ transfer_id    |-> transfer_id,
      filename       |-> filename,
      state          |-> RECEIVING,
      bytes_received |-> 0,
      stored_as      |-> <<>>,
      error          |-> None,
      created_at     |-> created_at ]

UploadResponse(status, detail, rec) ==
    [ status         |-> status,
      detail         |-> detail,
      state          |-> rec.state,
      stored_as      |-> rec.stored_as,
      bytes_received |-> rec.bytes_received ]

HTTPException(status, detail) ==
    [ status         |-> status,
      detail         |-> detail,
      state          |-> "",
      stored_as      |-> <<>>,
      bytes_received |-> 0 ]

NoResponse == HTTPException(0, <<>>)

\* The answer of a GET route: the HTTP status and the body.
Reply(route, status, body) == [route |-> route, status |-> status, body |-> body]

NoReply == Reply("", 0, [detail |-> ""])

----------------------------------------------------------------------------
(* client/sender.py: the values the client holds.  Positions in file_paths *)
(* count from 1 here where enumerate counts from 0.                        *)

FileResult(filename, response, error) ==
    [ filename |-> filename, response |-> response, error |-> error ]

\* A future of the pool: its state, and its outcome once it has finished.
Future(state, result, exception) ==
    [ state |-> state, result |-> result, exception |-> exception ]

\* An exception send_file raises: its class and the response it holds.
Raised(kind, response) == Some([ kind |-> kind, response |-> response ])

\* A call the progress listener receives.
Call(name, index, arg) == [ call |-> name, index |-> index, arg |-> arg ]

\* Before send_file is called.  deadline is counted from the current reading
\* of time.monotonic(), whose origin is arbitrary: it is the time left.
NoSender ==
    [ pc            |-> "off",
      transfer_id   |-> <<>>,
      posts         |-> 0,
      polled        |-> FALSE,
      upload_result |-> NoResponse,
      deadline      |-> 0,
      last_state    |-> None,
      last_bytes    |-> 0,
      record        |-> None,
      raised        |-> None ]

\* Before send_batch is called.
NoBatch ==
    [ pc              |-> "off",
      file_paths      |-> <<>>,
      parallel        |-> 0,
      workers         |-> 0,
      idx             |-> 0,
      futures         |-> <<>>,
      results         |-> <<>>,
      threads         |-> 0,
      idle_semaphore  |-> 0,
      yielded         |-> {} ]

\* Before resolve_inputs is called.
NoResolver ==
    [ pc        |-> "off",
      paths     |-> <<>>,
      recursive |-> FALSE,
      i         |-> 0,
      result    |-> <<>>,
      warnings  |-> 0,
      returned  |-> <<>> ]

\* Before a body producer is created.
NoProducer ==
    [ pc         |-> "off",
      kind       |-> "",
      source     |-> <<>>,
      iterator   |-> <<>>,
      chunk_size |-> 0,
      callback   |-> FALSE,
      pos        |-> 0,
      chunk      |-> <<>>,
      yielded    |-> <<>>,
      deltas     |-> <<>> ]

----------------------------------------------------------------------------
(* state.py: TransferRegistry.  Every method takes the lock for its whole  *)
(* body, so each is one atomic operator on the map.                        *)

EmptyMap == [x \in {} |-> 0]

\* The keyword arguments of update: a field that is not named is None.
Fields(state, bytes_received, stored_as, error) ==
    [ state |-> state, bytes_received |-> bytes_received,
      stored_as |-> stored_as, error |-> error ]

setattr(rec, kwargs) ==
    [ rec EXCEPT
        !.state          = IF kwargs.state = None THEN @ ELSE kwargs.state[1],
        !.bytes_received = IF kwargs.bytes_received = None THEN @
                           ELSE kwargs.bytes_received[1],
        !.stored_as      = IF kwargs.stored_as = None THEN @ ELSE kwargs.stored_as[1],
        !.error          = IF kwargs.error = None THEN @ ELSE kwargs.error[1] ]

create(recs, transfer_id, filename, t) ==
    [ x \in DOMAIN recs \cup {transfer_id} |->
        IF x = transfer_id THEN TransferRecord(transfer_id, filename, t)
        ELSE recs[x] ]

\* A lookup that finds nothing.
get_nothing(recs, transfer_id) == None

get(recs, transfer_id) ==
    IF transfer_id \in DOMAIN recs THEN Some(recs[transfer_id]) ELSE None

update(recs, transfer_id, kwargs) ==
    IF transfer_id \notin DOMAIN recs THEN recs
    ELSE [recs EXCEPT ![transfer_id] = setattr(@, kwargs)]

terminal == {DONE, ERROR}

\* A sweep that takes every old record, whatever its state.
to_remove_any_state(recs, max_age_seconds, t) ==
    { tid \in DOMAIN recs : t - recs[tid].created_at > max_age_seconds }

to_remove(recs, max_age_seconds, t) ==
    { tid \in DOMAIN recs :
        /\ recs[tid].state \in terminal
        /\ t - recs[tid].created_at > max_age_seconds }

cleanup(recs, max_age_seconds, t) ==
    [ x \in DOMAIN recs \ to_remove(recs, max_age_seconds, t) |-> recs[x] ]

RegistryCall(name, tid, ret, removed) ==
    [ name |-> name, tid |-> tid, ret |-> ret, removed |-> removed ]

NoCall == RegistryCall("none", <<>>, None, 0)

----------------------------------------------------------------------------
(* pathlib, as routes.py uses it: Path(original_filename).stem and the     *)
(* two paths built from it.                                                *)

Last(s) == s[Len(s)]

RECURSIVE SplitSlash(_)
SplitSlash(s) ==
    IF s = <<>> THEN << <<>> >>
    ELSE LET rest == SplitSlash(Tail(s))
         IN  IF Head(s) = "/" THEN << <<>> >> \o rest
             ELSE << <<Head(s)>> \o Head(rest) >> \o Tail(rest)

\* The parts of a path: empty components and "." components are dropped.
Parts(s) == SelectSeq(SplitSlash(s), LAMBDA c : c # <<>> /\ c # <<".">>)

\* The stem taken from the whole header value.
WholeValue(s) == s

Name(s) == IF Parts(s) = <<>> THEN <<>> ELSE Last(Parts(s))

\* name.rfind("."): the last position holding ".", 0 when there is none.
RFindDot(name) ==
    LET dots == { i \in 1..Len(name) : name[i] = "." }
    IN  IF dots = {} THEN 0 ELSE CHOOSE i \in dots : \A j \in dots : j <= i

Stem(s) ==
    LET name == Name(s)
        i == RFindDot(name)
    IN  IF 1 < i /\ i < Len(name) THEN SubSeq(name, 1, i - 1) ELSE name

msz_path(original_filename) == Stem(original_filename) \o <<".", "msz">>
mzml_path(original_filename) == Stem(original_filename) \o <<".", "mzML">>

----------------------------------------------------------------------------
(* The file system under output_dir.  A path names an inode; a handler     *)
(* writes through the inode it opened, at its own offset.                  *)

Put(f, k, v) == [x \in DOMAIN f \cup {k} |-> IF x = k THEN v ELSE f[x]]
Drop(f, k) == [x \in DOMAIN f \ {k} |-> f[x]]

Max(a, b) == IF a >= b THEN a ELSE b

Chunk(p, n) == [i \in 1..n |-> p]

\* write(chunk) at offset pos; a gap left by a truncation reads as zeros.
WriteAt(data, pos, chunk) ==
    IF chunk = <<>> THEN data
    ELSE [ i \in 1..Max(Len(data), pos + Len(chunk)) |->
             IF i > pos /\ i <= pos + Len(chunk) THEN chunk[i - pos]
             ELSE IF i <= Len(data) THEN data[i] ELSE 0 ]

\* open(path, "wb"): truncate the inode the path names, or create one.
OpenWb(fs, path, p) ==
    IF path \in DOMAIN fs THEN [fs EXCEPT ![path].data = <<>>]
    ELSE Put(fs, path, [ino |-> p, data |-> <<>>])

FdOf(fs, path, p) == IF path \in DOMAIN fs THEN fs[path].ino ELSE p

\* f.write(chunk) through descriptor fd, opened on path.
FileWrite(fs, path, fd, pos, chunk) ==
    IF path \in DOMAIN fs /\ fs[path].ino = fd
    THEN [fs EXCEPT ![path].data = WriteAt(@, pos, chunk)]
    ELSE fs

\* The codec's decompress: the mzML form of an msz input is longer than it.
Inflate(data) == <<9>> \o data \o data

----------------------------------------------------------------------------
(* auth.py: APIKeyAuthProvider.  A credential string is a sequence of       *)
(* characters; the scheme prefix of an Authorization header ("Bearer ",    *)
(* with its space) is one token in front of them.                          *)

NonAscii == {"e_acute"}
Characters == {"k", "x"} \cup NonAscii

ApiKeys == { <<"k">> }

\* What a request carries: the Authorization header ("" when there is none)
\* and the api_key query parameter (None when there is none).
Credentials(Authorization, api_key) ==
    [ Authorization |-> Authorization, api_key |-> api_key ]

NoCredentials == Credentials(<<>>, None)

CredentialStrings == { <<c>> : c \in Characters }

AuthorizationValues ==
    { <<>> } \cup { <<scheme>> \o t : scheme \in {"Bearer ", "bearer ", "Basic "},
                                     t \in CredentialStrings }

AllCredentials ==
    { Credentials(a, q) : a \in AuthorizationValues,
                          q \in {None, Some(<<>>)} \cup { Some(t) : t \in CredentialStrings } }

startswith_Bearer(auth_header) == auth_header # <<>> /\ Head(auth_header) = "Bearer "
removeprefix_Bearer(auth_header) == Tail(auth_header)

\* hmac.compare_digest on two str: TypeError when either holds a non-ASCII
\* character, otherwise whether they are equal.
compare_digest(a, b) ==
    IF \E i \in 1..Len(a) : a[i] \in NonAscii THEN "TypeError"
    ELSE IF \E i \in 1..Len(b) : b[i] \in NonAscii THEN "TypeError"
    ELSE IF a = b THEN "True" ELSE "False"

\* NoAuthProvider.authenticate: every request passes.
NoAuthProvider_authenticate(request, api_key) == 0

\* APIKeyAuthProvider.authenticate: 0 when it returns an AuthContext, 401
\* when it raises HTTPException, 500 when compare_digest raises TypeError.
authenticate(request, api_key) ==
    LET auth_header == request.Authorization
        by_header == IF startswith_Bearer(auth_header)
                     THEN compare_digest(removeprefix_Bearer(auth_header), api_key)
                     ELSE "False"
        query_key == request.api_key
        by_query == IF query_key # None
                    THEN compare_digest(query_key[1], api_key)
                    ELSE "False"
    IN  IF by_header = "True" THEN 0
        ELSE IF by_header = "TypeError" THEN 500
        ELSE IF by_query = "True" THEN 0
        ELSE IF by_query = "TypeError" THEN 500
        ELSE 401

----------------------------------------------------------------------------
(* routes.py: upload *)

update_every == 64

\* A check that only asks whether the header is there.
IsNone(v) == v = None

\* `not value` for a header value: it is missing (None) or the empty string.
Falsy(v) == v = None \/ v = Some(<<>>)

\* A final update that names no field.
NoFinalUpdate(bytes_received) == Fields(None, None, None, None)

\* Line 121: the keyword arguments of the final update of the receive phase.
FinalUpdate(bytes_received) == Fields(None, Some(bytes_received), None, None)

Handler0 ==
    [ pc |-> "idle",
      transfer_id |-> None,
      original_filename |-> None,
      sent |-> 0,
      bytes_received |-> 0,
      chunk_count |-> 0,
      fd |-> 0,
      response |-> NoResponse ]

HeaderValues(S) == {None} \cup {Some(v) : v \in S}

\* Lines 79-101: the headers are validated, then the record is created.
upload_start(p) ==
    /\ loop = 0
    /\ h[p].pc = "idle"
    /\ \E tid \in HeaderValues(TransferIds \cup {<<>>}),
          fname \in HeaderValues(names \cup {<<>>}) :
        \/ /\ Falsy(tid)
           /\ h' = [h EXCEPT ![p].pc = "responded", ![p].transfer_id = tid,
                      ![p].response =
                          HTTPException(400, <<"Missing X-Transfer-ID header">>)]
           /\ op' = NoCall
           /\ UNCHANGED records
        \/ /\ ~Falsy(tid)
           /\ Falsy(fname)
           /\ h' = [h EXCEPT ![p].pc = "responded", ![p].transfer_id = tid,
                      ![p].original_filename = fname,
                      ![p].response =
                          HTTPException(400, <<"Missing X-Original-Filename header">>)]
           /\ op' = NoCall
           /\ UNCHANGED records
        \/ /\ ~Falsy(tid)
           /\ ~Falsy(fname)
           /\ records' = create(records, tid[1], fname[1], now)
           /\ op' = RegistryCall("create", tid[1], None, 0)
           /\ h' = [h EXCEPT ![p].pc = "open", ![p].transfer_id = tid,
                      ![p].original_filename = fname]
    /\ UNCHANGED <<store_as, files, now, loop, cap, names, auth, creds, lock, client>>
    /\ reply' = NoReply

\* Line 112: aiofiles.open(msz_path, "wb").
upload_open(p) ==
    /\ loop = 0
    /\ h[p].pc = "open"
    /\ LET path == msz_path(h[p].original_filename[1]) IN
        /\ files' = OpenWb(files, path, p)
        /\ h' = [h EXCEPT ![p].pc = "stream", ![p].fd = FdOf(files, path, p)]
    /\ op' = NoCall
    /\ UNCHANGED <<store_as, records, now, loop, cap, names, auth, creds, lock, client>>
    /\ reply' = NoReply

\* Lines 113-118: one chunk is read, written and counted.
upload_chunk(p) ==
    /\ loop = 0
    /\ h[p].pc = "stream"
    /\ h[p].chunk_count < cap
    /\ \E n \in 0..MaxChunkLen :
        LET path == msz_path(h[p].original_filename[1])
            bytes_received == h[p].bytes_received + n
            chunk_count == h[p].chunk_count + 1
        IN
        /\ files' = FileWrite(files, path, h[p].fd, h[p].bytes_received, Chunk(p, n))
        /\ h' = [h EXCEPT ![p].sent = @ + n,
                          ![p].bytes_received = bytes_received,
                          ![p].chunk_count = chunk_count]
        /\ IF chunk_count % update_every = 0
           THEN /\ records' = update(records, h[p].transfer_id[1],
                                     Fields(None, Some(bytes_received), None, None))
                /\ op' = RegistryCall("update", h[p].transfer_id[1], None, 0)
           ELSE /\ op' = NoCall
                /\ UNCHANGED records
    /\ UNCHANGED <<store_as, now, loop, cap, names, auth, creds, lock, client>>
    /\ reply' = NoReply

\* An except branch that records the cause and leaves the state as it is.
ErrorUpdateKeepsState(exc) == Fields(None, None, None, Some(Some(exc)))

\* Line 124: the keyword arguments of the update of the except branch.
ReceiveErrorUpdate(exc) == Fields(Some(ERROR), None, None, Some(Some(exc)))

\* Lines 123-127: opening, reading or writing raised.
upload_receive_error(p) ==
    /\ loop = 0
    /\ h[p].pc \in {"open", "stream"}
    /\ \E exc \in ErrorCauses :
        /\ records' = update(records, h[p].transfer_id[1], ReceiveErrorUpdate(exc))
        /\ h' = [h EXCEPT ![p].pc = "responded", ![p].chunk_count = 0, ![p].fd = 0,
                   ![p].response =
                       HTTPException(500, <<"Error receiving data: ", exc>>)]
    /\ op' = RegistryCall("update", h[p].transfer_id[1], None, 0)
    /\ UNCHANGED <<store_as, files, now, loop, cap, names, auth, creds, lock, client>>
    /\ reply' = NoReply

\* Lines 113, 120-121: the stream ends, the file is closed, the total is flushed.
upload_flush(p) ==
    /\ loop = 0
    /\ h[p].pc = "stream"
    /\ records' = update(records, h[p].transfer_id[1],
                         FinalUpdate(h[p].bytes_received))
    /\ op' = RegistryCall("update", h[p].transfer_id[1], None, 0)
    /\ h' = [h EXCEPT ![p].pc = "received", ![p].chunk_count = 0, ![p].fd = 0]
    /\ loop' = p
    /\ UNCHANGED <<store_as, files, now, cap, names, auth, creds, lock, client>>
    /\ reply' = NoReply

\* Line 129, and the branch of lines 137 and 146.
upload_received(p) ==
    /\ loop = p
    /\ h[p].pc = "received"
    /\ records' = update(records, h[p].transfer_id[1],
                         Fields(Some(RECEIVED), None, None, None))
    /\ op' = RegistryCall("update", h[p].transfer_id[1], None, 0)
    /\ h' = [h EXCEPT ![p].pc = IF store_as = "msz" THEN "store_msz"
                                ELSE IF store_as = "mzml" THEN "store_mzml"
                                ELSE "return"]
    /\ UNCHANGED <<store_as, files, now, loop, cap, names, auth, creds, lock, client>>
    /\ reply' = NoReply

\* Lines 137-145.
upload_store_msz(p) ==
    /\ loop = p
    /\ h[p].pc = "store_msz"
    /\ records' = update(records, h[p].transfer_id[1],
                         Fields(Some(DONE), Some(h[p].bytes_received),
                                Some(msz_path(h[p].original_filename[1])), None))
    /\ op' = RegistryCall("update", h[p].transfer_id[1], None, 0)
    /\ h' = [h EXCEPT ![p].pc = "return"]
    /\ UNCHANGED <<store_as, files, now, loop, cap, names, auth, creds, lock, client>>
    /\ reply' = NoReply

\* Line 149.
upload_decompressing(p) ==
    /\ loop = p
    /\ h[p].pc = "store_mzml"
    /\ records' = update(records, h[p].transfer_id[1],
                         Fields(Some(DECOMPRESSING), None, None, None))
    /\ op' = RegistryCall("update", h[p].transfer_id[1], None, 0)
    /\ h' = [h EXCEPT ![p].pc = "msz_file"]
    /\ UNCHANGED <<store_as, files, now, loop, cap, names, auth, creds, lock, client>>
    /\ reply' = NoReply

\* decompress called in the coroutine itself: the handler keeps the loop.
call_inline(p) == p

\* Line 158: who holds the event loop while decompress runs.  The call is
\* awaited through asyncio.to_thread, so the loop is free.
to_thread(p) == 0

\* Lines 152-158: MSZFile(...) is built and decompress is handed to a thread.
upload_to_thread(p) ==
    /\ loop = p
    /\ h[p].pc = "msz_file"
    /\ h' = [h EXCEPT ![p].pc = "decompress"]
    /\ loop' = to_thread(p)
    /\ op' = NoCall
    /\ UNCHANGED <<store_as, records, files, now, cap, names, auth, creds, lock, client>>
    /\ reply' = NoReply

\* Line 158: the thread's decompress returns.
upload_decompress(p) ==
    /\ loop = 0
    /\ h[p].pc = "decompress"
    /\ LET path == msz_path(h[p].original_filename[1]) IN
        /\ path \in DOMAIN files
        /\ files' = Put(files, mzml_path(h[p].original_filename[1]),
                        [ino |-> 0, data |-> Inflate(files[path].data)])
    /\ h' = [h EXCEPT ![p].pc = "remove"]
    /\ op' = NoCall
    /\ UNCHANGED <<store_as, records, now, loop, cap, names, auth, creds, lock, client>>
    /\ reply' = NoReply

\* Line 161: aiofiles.os.remove takes the staging file away in a worker
\* thread; the coroutine goes on when the loop next runs it.
upload_remove(p) ==
    /\ loop = 0
    /\ h[p].pc = "remove"
    /\ LET path == msz_path(h[p].original_filename[1]) IN
        /\ path \in DOMAIN files
        /\ files' = Drop(files, path)
    /\ op' = NoCall
    /\ h' = [h EXCEPT ![p].pc = "done"]
    /\ UNCHANGED <<store_as, records, now, loop, cap, names, auth, creds, lock, client>>
    /\ reply' = NoReply

\* A completion that names the staging path.
DoneUpdateStaging(original_filename, bytes_received) ==
    Fields(Some(DONE), Some(bytes_received), Some(msz_path(original_filename)), None)

\* Lines 164-169: the keyword arguments of the update after decompression.
DoneUpdate(original_filename, bytes_received) ==
    Fields(Some(DONE), Some(bytes_received), Some(mzml_path(original_filename)), None)

\* Lines 164-170: the record is completed.
upload_done(p) ==
    /\ loop = 0
    /\ h[p].pc = "done"
    /\ records' = update(records, h[p].transfer_id[1],
                         DoneUpdate(h[p].original_filename[1], h[p].bytes_received))
    /\ op' = RegistryCall("update", h[p].transfer_id[1], None, 0)
    /\ h' = [h EXCEPT ![p].pc = "return"]
    /\ loop' = p
    /\ UNCHANGED <<store_as, files, now, cap, names, auth, creds, lock, client>>
    /\ reply' = NoReply

\* Lines 173-177: the keyword arguments of the update of the except branch.
DecompressErrorUpdate(exc) == Fields(Some(ERROR), None, None, Some(Some(exc)))

\* Lines 171-178: MSZFile(...), decompress or remove raised.
upload_decompress_error(p) ==
    /\ \/ loop = p /\ h[p].pc = "msz_file"
       \/ loop = 0 /\ h[p].pc = "decompress"
       \/ loop = 0 /\ h[p].pc = "remove"
    /\ \E exc \in ErrorCauses :
        records' = update(records, h[p].transfer_id[1], DecompressErrorUpdate(exc))
    /\ op' = RegistryCall("update", h[p].transfer_id[1], None, 0)
    /\ h' = [h EXCEPT ![p].pc = "return"]
    /\ loop' = p
    /\ UNCHANGED <<store_as, files, now, cap, names, auth, creds, lock, client>>
    /\ reply' = NoReply

\* Lines 180-196.
upload_return(p) ==
    /\ loop = p
    /\ h[p].pc = "return"
    /\ LET final == get(records, h[p].transfer_id[1]) IN
        /\ h' = [h EXCEPT ![p].pc = "responded",
                   ![p].response =
                       IF final = None
                       THEN HTTPException(500,
                              <<"Unexpected error: transfer record missing after processing">>)
                       ELSE UploadResponse(200, <<>>, final[1])]
        /\ op' = RegistryCall("get", h[p].transfer_id[1], final, 0)
    /\ loop' = 0
    /\ UNCHANGED <<store_as, records, files, now, cap, names, auth, creds, lock, client>>
    /\ reply' = NoReply

upload(p) ==
    \/ upload_start(p)
    \/ upload_open(p)
    \/ upload_chunk(p)
    \/ upload_receive_error(p)
    \/ upload_flush(p)
    \/ upload_received(p)
    \/ upload_store_msz(p)
    \/ upload_decompressing(p)
    \/ upload_to_thread(p)
    \/ upload_decompress(p)
    \/ upload_remove(p)
    \/ upload_done(p)
    \/ upload_decompress_error(p)
    \/ upload_return(p)

----------------------------------------------------------------------------
(* routes.py: transfer_status *)

\* Lines 49-62: the record of the id, or 404.
transfer_status(transfer_id) ==
    /\ loop = 0
    /\ LET record == get(records, transfer_id) IN
        /\ op' = RegistryCall("get", transfer_id, record, 0)
        /\ reply' = IF record = None
                     THEN Reply("status", 404, [detail |-> "Transfer not found"])
                     ELSE Reply("status", 200, record[1])
    /\ UNCHANGED <<store_as, records, files, now, h, loop, cap, names, auth, creds, lock, client>>

----------------------------------------------------------------------------
(* routes.py: health *)

\* Lines 36-46.
health ==
    /\ loop = 0
    /\ reply' = Reply("health", 200, [status |-> "ok", store_as |-> store_as])
    /\ op' = NoCall
    /\ UNCHANGED <<store_as, records, files, now, h, loop, cap, names, auth, creds, lock, client>>

----------------------------------------------------------------------------
(* The server: create_app, then requests in any order.  Nothing in the     *)
(* server calls cleanup, so no sweep runs here.                            *)

Init ==
    /\ store_as \in StoreAsValues
    /\ records = EmptyMap
    /\ files = EmptyMap
    /\ now = 0
    /\ h = [p \in Handlers |-> Handler0]
    /\ loop = 0
    /\ op = NoCall
    /\ cap = MaxChunks
    /\ names = FileNames
    /\ auth = None
    /\ creds = NoCredentials
    /\ reply = NoReply
    /\ sender = NoSender
    /\ batch = NoBatch
    /\ progress = <<>>
    /\ resolver = NoResolver
    /\ producer = NoProducer
    /\ lock = 0

Next ==
    \/ \E p \in Handlers : upload(p)
    \/ \E t \in TransferIds : transfer_status(t)
    \/ health

Spec == Init /\ [][Next]_vars

----------------------------------------------------------------------------
(* One upload with a long body: the same server, one request, a body of up *)
(* to LongChunks chunks, so that the update of every 64th chunk happens.   *)

InitStream ==
    /\ store_as \in StoreAsValues
    /\ records = EmptyMap
    /\ files = EmptyMap
    /\ now = 0
    /\ h = [p \in Handlers |-> IF p = 1 THEN Handler0 ELSE [Handler0 EXCEPT !.pc = "off"]]
    /\ loop = 0
    /\ op = NoCall
    /\ cap = LongChunks
    /\ names = FileNames
    /\ auth = None
    /\ creds = NoCredentials
    /\ reply = NoReply
    /\ sender = NoSender
    /\ batch = NoBatch
    /\ progress = <<>>
    /\ resolver = NoResolver
    /\ producer = NoProducer
    /\ lock = 0

SpecStream == InitStream /\ [][Next]_vars

----------------------------------------------------------------------------
(* The running server: the event loop keeps running the handlers of the    *)
(* requests it has accepted.  app.py builds the application without a      *)
(* lifespan handler, a startup hook or a background task, and no route     *)
(* calls TransferRegistry.cleanup: the steps of the server are the steps   *)
(* of its three routes.                                                    *)

InitServer ==
    /\ store_as \in StoreAsValues
    /\ records = EmptyMap
    /\ files = EmptyMap
    /\ now = 0
    /\ h = [p \in Handlers |-> IF p = 1 THEN Handler0 ELSE [Handler0 EXCEPT !.pc = "off"]]
    /\ loop = 0
    /\ op = NoCall
    /\ cap = MaxChunks
    /\ names = FileNames
    /\ auth = None
    /\ creds = NoCredentials
    /\ reply = NoReply
    /\ sender = NoSender
    /\ batch = NoBatch
    /\ progress = <<>>
    /\ resolver = NoResolver
    /\ producer = NoProducer
    /\ lock = 0

SpecServer == InitServer /\ [][Next]_vars

\* Every handler that can take a step eventually takes one.
SpecServerFair == SpecServer /\ \A p \in Handlers : WF_vars(upload(p))

----------------------------------------------------------------------------
(* The registry on its own: create, get, update and cleanup called in any  *)
(* order with any arguments, as the unit tests call them, and the clock.   *)

RegistryFileName == <<"a", ".", "msz">>

KwargsValues ==
    { Fields(st, b, sa, e) :
        st \in HeaderValues(TransferState),
        b \in HeaderValues({0, 1}),
        sa \in HeaderValues({msz_path(RegistryFileName)}),
        e \in HeaderValues({Some("disk full")}) }

registry_create(transfer_id) ==
    /\ records' = create(records, transfer_id, RegistryFileName, now)
    /\ op' = RegistryCall("create", transfer_id, None, 0)
    /\ UNCHANGED <<store_as, files, now, h, loop, cap, names, auth, creds, lock, client>>
    /\ reply' = NoReply

registry_get(transfer_id) ==
    /\ op' = RegistryCall("get", transfer_id, get(records, transfer_id), 0)
    /\ UNCHANGED <<store_as, records, files, now, h, loop, cap, names, auth, creds, lock, client>>
    /\ reply' = NoReply

registry_update(transfer_id, kwargs) ==
    /\ records' = update(records, transfer_id, kwargs)
    /\ op' = RegistryCall("update", transfer_id, None, 0)
    /\ UNCHANGED <<store_as, files, now, h, loop, cap, names, auth, creds, lock, client>>
    /\ reply' = NoReply

registry_cleanup(max_age_seconds) ==
    /\ records' = cleanup(records, max_age_seconds, now)
    /\ op' = RegistryCall("cleanup", <<>>, None,
                          Cardinality(to_remove(records, max_age_seconds, now)))
    /\ UNCHANGED <<store_as, files, now, h, loop, cap, names, auth, creds, lock, client>>
    /\ reply' = NoReply

Tick ==
    /\ now < MaxTime
    /\ now' = now + 1
    /\ op' = NoCall
    /\ UNCHANGED <<store_as, records, files, h, loop, cap, names, auth, creds, lock, client>>
    /\ reply' = NoReply

InitRegistry ==
    /\ store_as = "msz"
    /\ records = EmptyMap
    /\ files = EmptyMap
    /\ now = 0
    /\ h = [p \in Handlers |-> [Handler0 EXCEPT !.pc = "off"]]
    /\ loop = 0
    /\ op = NoCall
    /\ cap = 0
    /\ names = FileNames
    /\ auth = None
    /\ creds = NoCredentials
    /\ reply = NoReply
    /\ sender = NoSender
    /\ batch = NoBatch
    /\ progress = <<>>
    /\ resolver = NoResolver
    /\ producer = NoProducer
    /\ lock = 0

NextRegistry ==
    \/ \E t \in TransferIds : registry_create(t)
    \/ \E t \in TransferIds : registry_get(t)
    \/ \E t \in TransferIds, kwargs \in KwargsValues : registry_update(t, kwargs)
    \/ \E a \in MaxAges : registry_cleanup(a)
    \/ Tick

SpecRegistry == InitRegistry /\ [][NextRegistry]_vars

----------------------------------------------------------------------------
(* The registry over a longer time: records whose state moves on, and a    *)
(* sweep with a retention of one time unit.                                *)

SweepTime == 2

Retentions == {1}

\* The updates that set the state and nothing else.
StateKwargs == { Fields(Some(st), None, None, None) : st \in TransferState }

\* The wall clock advances.
Elapse ==
    /\ now < SweepTime
    /\ now' = now + 1
    /\ op' = NoCall
    /\ UNCHANGED <<store_as, records, files, h, loop, cap, names, auth, creds, lock, client>>
    /\ reply' = NoReply

NextSweep ==
    \/ \E t \in TransferIds : registry_create(t)
    \/ \E t \in TransferIds, kwargs \in StateKwargs : registry_update(t, kwargs)
    \/ \E a \in Retentions : registry_cleanup(a)
    \/ Elapse

SpecSweep == InitRegistry /\ [][NextSweep]_vars

----------------------------------------------------------------------------
(* One upload whose X-Original-Filename is any sequence of up to           *)
(* MaxNameLen tokens, directory separators and dots included.              *)

PathTokens == {"/", ".", "a", "msz"}

RECURSIVE TokenSeqs(_)
TokenSeqs(n) ==
    IF n = 0 THEN { <<>> }
    ELSE LET shorter == TokenSeqs(n - 1)
         IN  shorter \cup { <<t>> \o s : t \in PathTokens, s \in shorter }

PathNames == TokenSeqs(MaxNameLen) \ { <<>> }

InitPath ==
    /\ store_as \in {"msz", "mzml"}
    /\ records = EmptyMap
    /\ files = EmptyMap
    /\ now = 0
    /\ h = [p \in Handlers |-> IF p = 1 THEN Handler0 ELSE [Handler0 EXCEPT !.pc = "off"]]
    /\ loop = 0
    /\ op = NoCall
    /\ cap = 1
    /\ names = PathNames
    /\ auth = None
    /\ creds = NoCredentials
    /\ reply = NoReply
    /\ sender = NoSender
    /\ batch = NoBatch
    /\ progress = <<>>
    /\ resolver = NoResolver
    /\ producer = NoProducer
    /\ lock = 0

SpecPath == InitPath /\ [][Next]_vars

----------------------------------------------------------------------------
(* The server with the api-key provider: create_app(auth=APIKeyAuthProvider *)
(* (key)).  make_router puts the auth dependency in front of the upload and *)
(* status routes and leaves health without it; the dependency runs before  *)
(* the route handler and its exception is the request's answer.            *)

\* The answer to a request whose dependency raised: 401 from HTTPException,
\* 500 from any other exception.
DependencyError(status) ==
    IF status = 401 THEN <<"Invalid or missing API key">>
    ELSE <<"Internal Server Error">>

\* auth.py lines 56-62: _dependency awaits provider.authenticate(request).
auth_dependency(p) ==
    /\ loop = 0
    /\ h[p].pc = "auth"
    /\ auth # None
    /\ \E request \in AllCredentials :
        LET r == authenticate(request, auth[1]) IN
        /\ creds' = request
        /\ h' = [h EXCEPT ![p].pc = IF r = 0 THEN "idle" ELSE "responded",
                          ![p].response =
                              IF r = 0 THEN @
                              ELSE HTTPException(r, DependencyError(r))]
    /\ op' = NoCall
    /\ reply' = NoReply
    /\ UNCHANGED <<store_as, records, files, now, loop, cap, names, auth, lock, client>>

\* The status route behind the dependency.
protected_transfer_status(transfer_id) ==
    /\ loop = 0
    /\ auth # None
    /\ \E request \in AllCredentials :
        LET r == authenticate(request, auth[1])
            record == get(records, transfer_id)
        IN
        /\ creds' = request
        /\ IF r # 0
           THEN /\ reply' = Reply("status", r, [detail |-> DependencyError(r)[1]])
                /\ op' = NoCall
           ELSE /\ op' = RegistryCall("get", transfer_id, record, 0)
                /\ reply' = IF record = None
                             THEN Reply("status", 404, [detail |-> "Transfer not found"])
                             ELSE Reply("status", 200, record[1])
    /\ UNCHANGED <<store_as, records, files, now, h, loop, cap, names, auth, lock, client>>

InitAuth ==
    /\ store_as \in StoreAsValues
    /\ records = EmptyMap
    /\ files = EmptyMap
    /\ now = 0
    /\ h = [p \in Handlers |-> IF p = 1 THEN [Handler0 EXCEPT !.pc = "auth"]
                                ELSE [Handler0 EXCEPT !.pc = "off"]]
    /\ loop = 0
    /\ op = NoCall
    /\ cap = MaxChunks
    /\ names = FileNames
    /\ auth \in { Some(k) : k \in ApiKeys }
    /\ creds = NoCredentials
    /\ reply = NoReply
    /\ sender = NoSender
    /\ batch = NoBatch
    /\ progress = <<>>
    /\ resolver = NoResolver
    /\ producer = NoProducer
    /\ lock = 0

NextAuth ==
    \/ \E p \in Handlers : auth_dependency(p)
    \/ \E p \in Handlers : upload(p)
    \/ \E t \in TransferIds : protected_transfer_status(t)
    \/ health

SpecAuth == InitAuth /\ [][NextAuth]_vars

----------------------------------------------------------------------------
(* client/sender.py: _poll_status.  Time is counted in ticks; one turn of  *)
(* the loop (the request and the sleep) takes PollInterval ticks or more.  *)

\* The server's variables.
server == <<store_as, records, files, now, h, loop, op, cap, names, auth, creds, reply,
           lock>>

Timeout == 3
PollInterval == 1
MaxElapsed == 2

\* Lines 172-176: the poller's locals when it is entered.
poll_status(s) ==
    [ s EXCEPT !.pc = "poll", !.deadline = Timeout,
               !.last_state = None, !.last_bytes = 0 ]

\* A poller that takes every answer for progress.
AlwaysMakingProgress(s, record) == TRUE

\* Line 193.
StillMakingProgress(s, record) ==
    \/ Some(record.state) # s.last_state
    \/ record.bytes_received > s.last_bytes

\* Lines 181-196, and 158-160 when the poller returns: the deadline has not
\* passed, the status route is asked, the answer is looked at.
poll_get ==
    /\ sender.pc = "poll"
    /\ sender.deadline > 0
    /\ loop = 0
    /\ LET resp == get(records, sender.transfer_id) IN
        /\ op' = RegistryCall("get", sender.transfer_id, resp, 0)
        /\ reply' = IF resp = None
                     THEN Reply("status", 404, [detail |-> "Transfer not found"])
                     ELSE Reply("status", 200, resp[1])
        /\ sender' =
             IF resp = None
             THEN [sender EXCEPT !.pc = "sleep", !.polled = TRUE]
             ELSE LET record == resp[1] IN
                  IF record.state \in {DONE, ERROR}
                  THEN [sender EXCEPT !.pc = "returned", !.polled = TRUE,
                                      !.record = resp,
                                      !.upload_result.state = record.state]
                  ELSE IF StillMakingProgress(sender, record)
                  THEN [sender EXCEPT !.pc = "sleep", !.polled = TRUE,
                                      !.record = resp,
                                      !.last_state = Some(record.state),
                                      !.last_bytes = record.bytes_received,
                                      !.deadline = Timeout]
                  ELSE [sender EXCEPT !.pc = "sleep", !.polled = TRUE,
                                      !.record = resp]
    /\ UNCHANGED <<store_as, records, files, now, h, loop, cap, names, auth, creds,
                   lock, inputs, batch, progress>>

\* Line 198: time.sleep(interval).
poll_sleep ==
    /\ sender.pc = "sleep"
    /\ \E elapsed \in PollInterval..MaxElapsed :
        sender' = [sender EXCEPT !.pc = "poll", !.deadline = @ - elapsed]
    /\ UNCHANGED <<server, inputs, batch, progress>>

\* Lines 181 and 199-201: the deadline has passed.
poll_timeout ==
    /\ sender.pc = "poll"
    /\ sender.deadline <= 0
    /\ sender' = [sender EXCEPT !.pc = "raised",
                                !.raised = Raised("TimeoutError", NoResponse)]
    /\ UNCHANGED <<server, inputs, batch, progress>>

_poll_status == poll_get \/ poll_sleep \/ poll_timeout

\* The poller and the registry of the server it asks.  Several uploads may
\* carry the same id (create takes any id), so the record of the id is
\* created and updated in any order while the poller runs.
InitPoll ==
    /\ store_as = "msz"
    /\ records = EmptyMap
    /\ files = EmptyMap
    /\ now = 0
    /\ h = [p \in Handlers |-> [Handler0 EXCEPT !.pc = "off"]]
    /\ loop = 0
    /\ op = NoCall
    /\ cap = 0
    /\ names = FileNames
    /\ auth = None
    /\ creds = NoCredentials
    /\ reply = NoReply
    /\ \E transfer_id \in TransferIds :
        sender = poll_status([NoSender EXCEPT !.transfer_id = transfer_id,
                                             !.posts = 1])
    /\ batch = NoBatch
    /\ progress = <<>>
    /\ resolver = NoResolver
    /\ producer = NoProducer
    /\ lock = 0

NextPoll ==
    \/ registry_create(sender.transfer_id)
    \/ \E kwargs \in KwargsValues : registry_update(sender.transfer_id, kwargs)
    \/ poll_get
    \/ poll_sleep
    \/ poll_timeout

SpecPoll == InitPoll /\ [][NextPoll]_vars

\* The poller's thread keeps running.
SpecPollFair == SpecPoll /\ WF_vars(_poll_status)

----------------------------------------------------------------------------
(* client/sender.py: send_file, from the POST on, against the server.  The *)
(* request of the sender is served by handler 1; handler 2 serves another  *)
(* client's upload, whose headers are its own.                             *)

SenderHandler == 1
SenderFileName == <<"a", ".", "msz">>

\* A client that takes every answer for a success.
never_raises(resp) == FALSE

\* Line 152: httpx raises HTTPStatusError for an answer that is not 2xx.
raise_for_status(resp) == ~(200 <= resp.status /\ resp.status <= 299)

\* Lines 112, 121-126, 147-151: a fresh id, the headers, the POST.  The
\* server's handler takes the two headers, both present, and creates the
\* record (routes.py lines 80-101).
send_file_post ==
    /\ sender.pc = "start"
    /\ loop = 0
    /\ h[SenderHandler].pc = "off"
    /\ \E transfer_id \in TransferIds :
        /\ sender' = [sender EXCEPT !.pc = "post", !.transfer_id = transfer_id,
                                    !.posts = @ + 1]
        /\ h' = [h EXCEPT ![SenderHandler] =
                    [Handler0 EXCEPT !.pc = "open",
                                     !.transfer_id = Some(transfer_id),
                                     !.original_filename = Some(SenderFileName)]]
        /\ records' = create(records, transfer_id, SenderFileName, now)
        /\ op' = RegistryCall("create", transfer_id, None, 0)
    /\ reply' = NoReply
    /\ UNCHANGED <<store_as, files, now, loop, cap, names, auth, creds, lock, inputs,
                 batch, progress>>

\* Lines 152-160: the answer has come.
send_file_response ==
    /\ sender.pc = "post"
    /\ h[SenderHandler].pc = "responded"
    /\ LET resp == h[SenderHandler].response IN
        sender' =
            IF raise_for_status(resp)
            THEN [sender EXCEPT !.pc = "raised",
                                !.raised = Raised("HTTPStatusError", resp)]
            ELSE IF resp.state \notin {DONE, ERROR}
            THEN poll_status([sender EXCEPT !.upload_result = resp])
            ELSE [sender EXCEPT !.pc = "returned", !.upload_result = resp]
    /\ UNCHANGED <<server, inputs, batch, progress>>

send_file ==
    \/ send_file_post
    \/ send_file_response
    \/ poll_get
    \/ poll_sleep
    \/ poll_timeout

InitSender ==
    /\ store_as \in StoreAsValues
    /\ records = EmptyMap
    /\ files = EmptyMap
    /\ now = 0
    /\ h = [p \in Handlers |-> IF p = SenderHandler
                               THEN [Handler0 EXCEPT !.pc = "off"]
                               ELSE Handler0]
    /\ loop = 0
    /\ op = NoCall
    /\ cap = 1
    /\ names = {SenderFileName}
    /\ auth = None
    /\ creds = NoCredentials
    /\ reply = NoReply
    /\ sender = [NoSender EXCEPT !.pc = "start"]
    /\ batch = NoBatch
    /\ progress = <<>>
    /\ resolver = NoResolver
    /\ producer = NoProducer
    /\ lock = 0

NextSender ==
    \/ \E p \in Handlers : upload(p)
    \/ send_file

SpecSender == InitSender /\ [][NextSender]_vars

----------------------------------------------------------------------------
(* client/sender.py: send_batch.  The dispatching thread runs the for loop *)
(* and the as_completed loop; the threads of the pool run send_file.  Of   *)
(* send_file this part keeps what send_batch sees of it: the calls of the  *)
(* progress callback, and the return value or the exception.  The listener *)
(* is present and its methods return normally.                             *)

MaxFiles == 2
MaxParallel == 3

\* The files on the client's disk and their sizes; gone.msz is not there.
Disk ==
    ( <<"a", ".", "msz">> :> 2 ) @@ ( <<"d", "/", "b", ".", "mzML">> :> 3 ) @@
    ( <<"c", ".", "mszx">> :> 1 ) @@ ( <<"e", ".", "MSZ">> :> 1 )

BatchPaths == DOMAIN Disk \cup { <<"gone", ".", "msz">> }

BatchInputs == UNION { [1..n -> BatchPaths] : n \in 0..MaxFiles }

\* str.lower() on the tokens that occur as extensions.
lower(tok) ==
    CASE tok = "MSZ" -> "msz"
      [] tok = "mzML" -> "mzml"
      [] OTHER -> tok

\* Path.suffix: the last dot of the name and what follows it.
Suffix(path) ==
    LET name == Name(path)
        i == RFindDot(name)
    IN  IF 1 < i /\ i < Len(name) THEN SubSeq(name, i, Len(name)) ELSE <<>>

suffix_lower(path) == [ i \in 1..Len(Suffix(path)) |-> lower(Suffix(path)[i]) ]

\* Line 224.
is_msz(fpath) == suffix_lower(fpath) = <<".", "msz">>

\* Line 225, for a file that stat() finds.
total_bytes(fpath) == IF is_msz(fpath) THEN Some(Disk[fpath]) ELSE None

\* Every future ever submitted, running or not.
Submitted == 1..Len(batch.futures)

Running == { i \in 1..Len(batch.futures) : batch.futures[i].state = "RUNNING" }

\* A pool as large as the parallelism asked for.
uncapped(a, b) == a

min(a, b) == IF a <= b THEN a ELSE b

\* What send_file returns, and the messages of what it raises.
SendFileResults(fpath) ==
    { UploadResponse(200, <<>>,
          [TransferRecord(<<"uuid4">>, Name(fpath), 0) EXCEPT !.state = st])
        : st \in {DONE, ERROR} }

SendFileErrors == { "boom" }

CallsOf(log, i) == SelectSeq(log, LAMBDA c : c.index = i)

\* Lines 213-217: the pool is built; ThreadPoolExecutor raises ValueError
\* when max_workers is not positive.
send_batch_pool ==
    /\ batch.pc = "start"
    /\ LET workers == min(batch.parallel, Len(batch.file_paths)) IN
        batch' = [batch EXCEPT !.workers = workers,
                               !.pc = IF workers <= 0 THEN "raised"
                                      ELSE "for",
                               !.idx = 1]
    /\ UNCHANGED <<server, inputs, sender, progress>>

\* ThreadPoolExecutor.submit: the item is queued, and a thread is started
\* when no thread is idle and the pool is not full.
submit(b) ==
    [ b EXCEPT
        !.futures = Append(@, Future("PENDING", None, None)),
        !.idle_semaphore = IF @ > 0 THEN @ - 1 ELSE @,
        !.threads = IF b.idle_semaphore = 0 /\ @ < b.workers THEN @ + 1 ELSE @ ]

\* Lines 221-248: one turn of the for loop.  fpath.stat() raises for an
\* .msz path that is not on disk; the exception leaves the with block.
send_batch_for ==
    /\ batch.pc = "for"
    /\ LET idx == batch.idx
           fpath == batch.file_paths[idx]
       IN
        IF is_msz(fpath) /\ fpath \notin DOMAIN Disk
        THEN /\ batch' = [batch EXCEPT !.pc = "shutdown"]
             /\ UNCHANGED progress
        ELSE /\ progress' = Append(progress,
                                   Call("file_started", idx, total_bytes(fpath)))
             /\ batch' = [submit(batch) EXCEPT
                            !.idx = idx + 1,
                            !.pc = IF idx = Len(batch.file_paths)
                                   THEN "as_completed" ELSE "for"]
    /\ UNCHANGED <<server, inputs, sender>>

\* A thread of the pool takes the oldest queued item.
worker_run(i) ==
    /\ i \in 1..Len(batch.futures)
    /\ batch.futures[i].state = "PENDING"
    /\ \A j \in 1..(i - 1) : batch.futures[j].state # "PENDING"
    /\ Cardinality(Running) < batch.threads
    /\ batch' = [batch EXCEPT !.futures[i].state = "RUNNING"]
    /\ UNCHANGED <<server, inputs, sender, progress>>

\* Lines 75-96 and 235-237: send_file's generator yields a chunk and cb
\* reports its length.
worker_callback(i) ==
    /\ i \in Running
    /\ Len(SelectSeq(CallsOf(progress, i),
                     LAMBDA c : c.call = "file_progress")) < MaxChunks
    /\ \E delta \in 1..MaxChunkLen :
        progress' = Append(progress, Call("file_progress", i, <<delta>>))
    /\ UNCHANGED <<server, inputs, sender, batch>>

\* Line 160: send_file returns; the thread sets the future's result.
worker_return(i) ==
    /\ i \in Running
    /\ \E result \in SendFileResults(batch.file_paths[i]) :
        batch' = [batch EXCEPT
                    !.futures[i] = Future("FINISHED", Some(result), None),
                    !.idle_semaphore = @ + 1]
    /\ UNCHANGED <<server, inputs, sender, progress>>

\* Lines 118, 143, 152, 199: send_file raises; the thread sets the
\* future's exception.
worker_raise(i) ==
    /\ i \in Running
    /\ \E exc \in SendFileErrors :
        batch' = [batch EXCEPT
                    !.futures[i] = Future("FINISHED", None, Some(exc)),
                    !.idle_semaphore = @ + 1]
    /\ UNCHANGED <<server, inputs, sender, progress>>

\* Lines 251-264: as_completed yields a finished future, in the order the
\* futures finish, and any of those that finished before it was called.
send_batch_as_completed ==
    /\ batch.pc = "as_completed"
    /\ \E idx \in 1..Len(batch.futures) :
        /\ batch.futures[idx].state = "FINISHED"
        /\ idx \notin batch.yielded
        /\ LET future == batch.futures[idx]
               fpath == batch.file_paths[idx]
           IN
            IF future.exception = None
            THEN /\ batch' = [batch EXCEPT
                        !.results = Append(@, FileResult(Name(fpath),
                                                         future.result, None)),
                        !.yielded = @ \cup {idx}]
                 /\ progress' = Append(progress,
                                       Call("file_done", idx, future.result))
            ELSE /\ batch' = [batch EXCEPT
                        !.results = Append(@, FileResult(Name(fpath), None,
                                                         future.exception)),
                        !.yielded = @ \cup {idx}]
                 /\ progress' = Append(progress,
                                       Call("file_error", idx, future.exception))
    /\ UNCHANGED <<server, inputs, sender>>

\* Lines 217 and 266: every future was yielded, the pool shuts down, the
\* list is returned.
send_batch_return ==
    /\ batch.pc = "as_completed"
    /\ batch.yielded = 1..Len(batch.futures)
    /\ batch' = [batch EXCEPT !.pc = "returned"]
    /\ UNCHANGED <<server, inputs, sender, progress>>

\* Line 217: an exception leaves the with block; shutdown(wait=True) lets
\* the submitted items finish, then send_batch raises.
send_batch_raise ==
    /\ batch.pc = "shutdown"
    /\ \A i \in 1..Len(batch.futures) : batch.futures[i].state = "FINISHED"
    /\ batch' = [batch EXCEPT !.pc = "raised"]
    /\ UNCHANGED <<server, inputs, sender, progress>>

InitBatch ==
    /\ store_as = "msz"
    /\ records = EmptyMap
    /\ files = EmptyMap
    /\ now = 0
    /\ h = [p \in Handlers |-> [Handler0 EXCEPT !.pc = "off"]]
    /\ loop = 0
    /\ op = NoCall
    /\ cap = 0
    /\ names = FileNames
    /\ auth = None
    /\ creds = NoCredentials
    /\ reply = NoReply
    /\ sender = NoSender
    /\ \E file_paths \in BatchInputs, parallel \in 0..MaxParallel :
        batch = [NoBatch EXCEPT !.pc = "start", !.file_paths = file_paths,
                                !.parallel = parallel]
    /\ progress = <<>>
    /\ resolver = NoResolver
    /\ producer = NoProducer
    /\ lock = 0

NextBatch ==
    \/ send_batch_pool
    \/ send_batch_for
    \/ \E i \in 1..MaxFiles : worker_run(i)
    \/ \E i \in 1..MaxFiles : worker_callback(i)
    \/ \E i \in 1..MaxFiles : worker_return(i)
    \/ \E i \in 1..MaxFiles : worker_raise(i)
    \/ send_batch_as_completed
    \/ send_batch_return
    \/ send_batch_raise

SpecBatch == InitBatch /\ [][NextBatch]_vars

----------------------------------------------------------------------------
(* send_batch with a listener whose methods may raise.  A call that raised *)
(* was still made: it is in the log of calls like any other.               *)

\* The messages of what a listener method raises.
ListenerErrors == { "oops" }

\* Line 229: file_started raises in the for loop, outside any try; the
\* exception leaves the with block.
listener_started_raises ==
    /\ batch.pc = "for"
    /\ LET idx == batch.idx
           fpath == batch.file_paths[idx]
       IN
        /\ ~(is_msz(fpath) /\ fpath \notin DOMAIN Disk)
        /\ progress' = Append(progress,
                              Call("file_started", idx, total_bytes(fpath)))
        /\ batch' = [batch EXCEPT !.pc = "shutdown"]
    /\ UNCHANGED <<server, inputs, sender>>

\* Lines 235-237: file_progress raises inside send_file's generator, in the
\* thread of the pool; send_file raises and the future holds the exception.
listener_progress_raises(i) ==
    /\ i \in Running
    /\ Len(SelectSeq(CallsOf(progress, i),
                     LAMBDA c : c.call = "file_progress")) < MaxChunks
    /\ \E delta \in 1..MaxChunkLen, exc \in ListenerErrors :
        /\ progress' = Append(progress, Call("file_progress", i, <<delta>>))
        /\ batch' = [batch EXCEPT
                       !.futures[i] = Future("FINISHED", None, Some(exc)),
                       !.idle_semaphore = @ + 1]
    /\ UNCHANGED <<server, inputs, sender>>

\* Lines 255-264: file_done raises inside the try, after the result was
\* appended; the except branch appends a second FileResult for the same file
\* and calls file_error, which returns or raises in its turn.
listener_done_raises ==
    /\ batch.pc = "as_completed"
    /\ \E idx \in 1..Len(batch.futures), exc \in ListenerErrors,
          again \in BOOLEAN :
        /\ batch.futures[idx].state = "FINISHED"
        /\ idx \notin batch.yielded
        /\ batch.futures[idx].exception = None
        /\ LET future == batch.futures[idx]
               fpath == batch.file_paths[idx]
           IN
            /\ batch' = [batch EXCEPT
                   !.results = @ \o << FileResult(Name(fpath), future.result, None),
                                       FileResult(Name(fpath), None, Some(exc)) >>,
                   !.yielded = @ \cup {idx},
                   !.pc = IF again THEN "shutdown" ELSE @]
            /\ progress' = progress \o << Call("file_done", idx, future.result),
                                          Call("file_error", idx, Some(exc)) >>
    /\ UNCHANGED <<server, inputs, sender>>

\* Lines 260-263: file_error raises inside the except branch; the exception
\* leaves the loop and the with block.
listener_error_raises ==
    /\ batch.pc = "as_completed"
    /\ \E idx \in 1..Len(batch.futures) :
        /\ batch.futures[idx].state = "FINISHED"
        /\ idx \notin batch.yielded
        /\ batch.futures[idx].exception # None
        /\ LET future == batch.futures[idx]
               fpath == batch.file_paths[idx]
           IN
            /\ batch' = [batch EXCEPT
                   !.results = Append(@, FileResult(Name(fpath), None,
                                                    future.exception)),
                   !.yielded = @ \cup {idx},
                   !.pc = "shutdown"]
            /\ progress' = Append(progress,
                                  Call("file_error", idx, future.exception))
    /\ UNCHANGED <<server, inputs, sender>>

NextListener ==
    \/ send_batch_pool
    \/ send_batch_for
    \/ \E i \in 1..MaxFiles : worker_run(i)
    \/ \E i \in 1..MaxFiles : worker_callback(i)
    \/ \E i \in 1..MaxFiles : worker_return(i)
    \/ \E i \in 1..MaxFiles : worker_raise(i)
    \/ send_batch_as_completed
    \/ send_batch_return
    \/ send_batch_raise
    \/ listener_started_raises
    \/ \E i \in 1..MaxFiles : listener_progress_raises(i)
    \/ listener_done_raises
    \/ listener_error_raises

SpecListener == InitBatch /\ [][NextListener]_vars

----------------------------------------------------------------------------
(* client/sender.py: resolve_inputs.  A Path is the sequence of its        *)
(* components, as pathlib keeps it: the root "/" is a component of its     *)
(* own, "." components and empty components are dropped when the Path is   *)
(* built, ".." components are kept.  The file system is a tree of          *)
(* directories and regular files without symbolic links, on a case-        *)
(* sensitive file system; the working directory is /w.                     *)

MaxArgs == 2

Root == <<"/">>
DotDot == <<".", ".">>
Cwd == <<Root, <<"w">> >>

\* The tree: canonical absolute path -> kind of the entry.
FS ==
    ( <<Root>> :> "dir" ) @@ ( Cwd :> "dir" ) @@
    ( Cwd \o << <<"a", ".", "msz">> >> :> "file" ) @@
    ( Cwd \o << <<"b", ".", "txt">> >> :> "file" ) @@
    ( Cwd \o << <<"d">> >> :> "dir" ) @@
    ( Cwd \o << <<"d">>, <<"c", ".", "mzML">> >> :> "file" ) @@
    ( Cwd \o << <<"d">>, <<"f", ".", "mszx">> >> :> "file" ) @@
    ( Cwd \o << <<"d">>, <<"k", ".", "MSZ">> >> :> "file" ) @@
    ( Cwd \o << <<"d">>, <<"s", ".", "msz">> >> :> "dir" ) @@
    ( Cwd \o << <<"d">>, <<"s", ".", "msz">>, <<"h", ".", "msz">> >> :> "file" )

\* The strings a caller passes: a.msz spelled four ways, a file of another
\* type, a directory, two files inside it, a directory inside it, and a path
\* that does not exist.
ArgStrings ==
    { <<"a", ".", "msz">>,
      <<".", "/", "a", ".", "msz">>,
      <<"d", "/", ".", ".", "/", "a", ".", "msz">>,
      <<"/", "w", "/", "a", ".", "msz">>,
      <<"b", ".", "txt">>,
      <<"d">>,
      <<"d", "/", "c", ".", "mzML">>,
      <<"d", "/", "f", ".", "mszx">>,
      <<"d", "/", "s", ".", "msz">>,
      <<"nope">> }

ResolverInputs == UNION { [1..n -> ArgStrings] : n \in 0..MaxArgs }

\* Line 22.
VALID_EXTENSIONS == { <<".", "mzml">>, <<".", "msz">>, <<".", "mszx">> }

\* Line 62: the patterns "*.mzML", "*.msz", "*.mzml", "*.MSZ", by extension.
GlobPatterns == <<"mzML", "msz", "mzml", "MSZ">>

\* Path(p), line 55.
Path(p) == (IF p # <<>> /\ Head(p) = "/" THEN <<Root>> ELSE <<>>) \o Parts(p)

\* str(path).
RECURSIVE Str(_)
Str(path) ==
    IF path = <<>> THEN <<>>
    ELSE IF Len(path) = 1 \/ Head(path) = Root THEN Head(path) \o Str(Tail(path))
    ELSE Head(path) \o <<"/">> \o Str(Tail(path))

\* The operating system's lookup of a path: the entry each component names,
\* from the root or the working directory; <<>> when a directory on the way
\* does not exist.
RECURSIVE Walk(_, _)
Walk(cur, rest) ==
    IF rest = <<>> THEN cur
    ELSE IF cur \notin DOMAIN FS \/ FS[cur] # "dir" THEN <<>>
    ELSE IF Head(rest) = DotDot
    THEN Walk(IF Len(cur) = 1 THEN cur ELSE SubSeq(cur, 1, Len(cur) - 1), Tail(rest))
    ELSE Walk(Append(cur, Head(rest)), Tail(rest))

\* The canonicalized absolute path of a Path.
realpath(path) ==
    IF path # <<>> /\ Head(path) = Root THEN Walk(<<Root>>, Tail(path))
    ELSE Walk(Cwd, path)

is_file(path) == realpath(path) \in DOMAIN FS /\ FS[realpath(path)] = "file"
is_dir(path) == realpath(path) \in DOMAIN FS /\ FS[realpath(path)] = "dir"

\* The code points of the characters of a token.
Chars(tok) ==
    CASE tok = "/" -> <<47>>
      [] tok = "." -> <<46>>
      [] tok = "a" -> <<97>>
      [] tok = "b" -> <<98>>
      [] tok = "c" -> <<99>>
      [] tok = "d" -> <<100>>
      [] tok = "f" -> <<102>>
      [] tok = "h" -> <<104>>
      [] tok = "k" -> <<107>>
      [] tok = "s" -> <<115>>
      [] tok = "w" -> <<119>>
      [] tok = "msz" -> <<109, 115, 122>>
      [] tok = "mszx" -> <<109, 115, 122, 120>>
      [] tok = "MSZ" -> <<77, 83, 90>>
      [] tok = "mzML" -> <<109, 122, 77, 76>>
      [] tok = "txt" -> <<116, 120, 116>>
      [] tok = "nope" -> <<110, 111, 112, 101>>

RECURSIVE CodePoints(_)
CodePoints(s) == IF s = <<>> THEN <<>> ELSE Chars(Head(s)) \o CodePoints(Tail(s))

\* a < b for two sequences of integers, as Python compares str and list.
RECURSIVE SeqLess(_, _)
SeqLess(a, b) ==
    IF b = <<>> THEN FALSE
    ELSE IF a = <<>> THEN TRUE
    ELSE IF Head(a) # Head(b) THEN Head(a) < Head(b)
    ELSE SeqLess(Tail(a), Tail(b))

\* str.__lt__ on the strings of two paths.
StrLess(p, q) == SeqLess(CodePoints(Str(p)), CodePoints(Str(q)))

\* Path.__lt__: the lists of components are compared, each component as a str.
RECURSIVE PathLess(_, _)
PathLess(p, q) ==
    IF q = <<>> THEN FALSE
    ELSE IF p = <<>> THEN TRUE
    ELSE IF Head(p) # Head(q) THEN SeqLess(CodePoints(Head(p)), CodePoints(Head(q)))
    ELSE PathLess(Tail(p), Tail(q))

\* sorted(S) for a set of Paths.
RECURSIVE sorted(_)
sorted(S) ==
    IF S = {} THEN <<>>
    ELSE LET first == CHOOSE x \in S : \A y \in S \ {x} : PathLess(x, y)
         IN  <<first>> \o sorted(S \ {first})

Range(seq) == { seq[k] : k \in 1..Len(seq) }

\* list(dict.fromkeys(result)): the first occurrence of each Path is kept.
fromkeys(seq) ==
    LET keep == { k \in 1..Len(seq) : \A j \in 1..(k - 1) : seq[j] # seq[k] }
        F[k \in 0..Len(seq)] ==
            IF k = 0 THEN <<>>
            ELSE IF k \in keep THEN Append(F[k - 1], seq[k]) ELSE F[k - 1]
    IN  F[Len(seq)]

\* The entries below a directory: its children, or everything under it.
Below(dir, deep) ==
    { q \in DOMAIN FS :
        /\ Len(q) > Len(dir)
        /\ SubSeq(q, 1, Len(dir)) = dir
        /\ deep \/ Len(q) = Len(dir) + 1 }

\* fnmatch of a name against "*.<ext>", case-sensitively.
Matches(name, ext) ==
    /\ Len(name) >= 2
    /\ name[Len(name) - 1] = "."
    /\ name[Len(name)] = ext

\* path.glob(ext) and path.rglob(ext): the matching entries, directories
\* included, each spelled as the argument followed by the components below it.
glob(path, ext, recursive) ==
    LET dir == realpath(path) IN
    { path \o SubSeq(q, Len(dir) + 1, Len(q)) :
        q \in { e \in Below(dir, recursive) :
                  Matches(Last(e), ext) } }

\* Lines 62-66: the four patterns in turn.  The order in which the operating
\* system lists a directory does not reach the caller: line 72 sorts.
RECURSIVE extend(_, _, _, _)
extend(result, path, recursive, k) ==
    IF k > Len(GlobPatterns) THEN result
    ELSE extend(result \o sorted(glob(path, GlobPatterns[k], recursive)),
                path, recursive, k + 1)

\* Line 57.
valid_suffix(path) == suffix_lower(Str(path)) \in VALID_EXTENSIONS

\* Lines 56-60: the argument is a regular file.
resolve_inputs_file ==
    /\ resolver.pc = "loop"
    /\ resolver.i <= Len(resolver.paths)
    /\ LET path == Path(resolver.paths[resolver.i]) IN
       /\ is_file(path)
       /\ resolver' =
            IF valid_suffix(path)
            THEN [resolver EXCEPT !.i = @ + 1, !.result = Append(@, path)]
            ELSE [resolver EXCEPT !.i = @ + 1, !.warnings = @ + 1]
    /\ UNCHANGED <<server, sender, batch, progress, producer>>

\* Lines 61-67: the argument is a directory.
resolve_inputs_dir ==
    /\ resolver.pc = "loop"
    /\ resolver.i <= Len(resolver.paths)
    /\ LET path == Path(resolver.paths[resolver.i]) IN
       /\ is_dir(path)
       /\ resolver' =
            [resolver EXCEPT
               !.i = @ + 1,
               !.result = fromkeys(extend(@, path, resolver.recursive, 1))]
    /\ UNCHANGED <<server, sender, batch, progress, producer>>

\* Lines 68-69: the argument is neither.
resolve_inputs_skip ==
    /\ resolver.pc = "loop"
    /\ resolver.i <= Len(resolver.paths)
    /\ LET path == Path(resolver.paths[resolver.i]) IN
       /\ ~is_file(path)
       /\ ~is_dir(path)
       /\ resolver' = [resolver EXCEPT !.i = @ + 1, !.warnings = @ + 1]
    /\ UNCHANGED <<server, sender, batch, progress, producer>>

\* Lines 70-71.
resolve_inputs_raise ==
    /\ resolver.pc = "loop"
    /\ resolver.i > Len(resolver.paths)
    /\ resolver.result = <<>>
    /\ resolver' = [resolver EXCEPT !.pc = "raised"]
    /\ UNCHANGED <<server, sender, batch, progress, producer>>

\* Line 72.
resolve_inputs_return ==
    /\ resolver.pc = "loop"
    /\ resolver.i > Len(resolver.paths)
    /\ resolver.result # <<>>
    /\ resolver' = [resolver EXCEPT !.pc = "returned",
                                    !.returned = sorted(Range(resolver.result))]
    /\ UNCHANGED <<server, sender, batch, progress, producer>>

resolve_inputs ==
    \/ resolve_inputs_file
    \/ resolve_inputs_dir
    \/ resolve_inputs_skip
    \/ resolve_inputs_raise
    \/ resolve_inputs_return

\* resolve_inputs(paths, recursive) has been called with any of the inputs.
InitResolver ==
    /\ store_as = "msz"
    /\ records = EmptyMap
    /\ files = EmptyMap
    /\ now = 0
    /\ h = [p \in Handlers |-> [Handler0 EXCEPT !.pc = "off"]]
    /\ loop = 0
    /\ op = NoCall
    /\ cap = 0
    /\ names = {}
    /\ auth = None
    /\ creds = NoCredentials
    /\ reply = NoReply
    /\ sender = NoSender
    /\ batch = NoBatch
    /\ progress = <<>>
    /\ producer = NoProducer
    /\ lock = 0
    /\ \E paths \in ResolverInputs, recursive \in BOOLEAN :
          resolver = [NoResolver EXCEPT !.pc = "loop", !.paths = paths,
                                        !.recursive = recursive, !.i = 1]

NextResolver ==
    \/ resolve_inputs_file
    \/ resolve_inputs_dir
    \/ resolve_inputs_skip
    \/ resolve_inputs_raise
    \/ resolve_inputs_return

SpecResolver == InitResolver /\ [][NextResolver]_vars

----------------------------------------------------------------------------
(* state.py and routes.py: the registry lock.  Here a registry method is   *)
(* two steps, the entry of its `with self._lock:` block and the exit, and  *)
(* an awaited operation (aiofiles, request.stream(), asyncio.to_thread) is *)
(* in flight, in a thread of its own, for as long as the handler stands at *)
(* it.  This part keeps of a handler what the lock sees: the order of its  *)
(* registry calls and of its awaits.  Handlers run on the one event loop:  *)
(* a handler gives the loop away only at an await.                         *)

\* The registry calls of the two routes, by the line that makes them.
RegistryCalls ==
    { "create_100", "update_118", "update_121", "update_124", "update_129",
      "update_140", "update_149", "update_164", "update_173", "get_181",
      "get_57" }

\* The awaits of upload: open, the next chunk, write, close, decompress, remove.
Awaits ==
    { "open_112", "stream_113", "write_114", "close_112", "to_thread_158",
      "remove_161" }

\* Where control goes from each position of upload and transfer_status.
Then ==
    [ idle          |-> {"create_100", "get_57"},
      get_57        |-> {"return_62"},
      return_62     |-> {"responded"},
      create_100    |-> {"open_112"},
      open_112      |-> {"stream_113", "update_124"},
      stream_113    |-> {"write_114", "close_112", "update_124"},
      write_114     |-> {"stream_113", "update_118", "update_124"},
      update_118    |-> {"stream_113"},
      close_112     |-> {"update_121", "update_124"},
      update_121    |-> {"update_129"},
      update_124    |-> {"responded"},
      update_129    |-> {"update_140", "update_149", "get_181"},
      update_140    |-> {"get_181"},
      update_149    |-> {"to_thread_158"},
      to_thread_158 |-> {"remove_161", "update_173"},
      remove_161    |-> {"update_164", "update_173"},
      update_164    |-> {"get_181"},
      update_173    |-> {"get_181"},
      get_181       |-> {"responded"},
      responded     |-> {} ]

\* The positions control can reach from pc, given the handler's locals:
\* lines 137 and 146 choose by store_as, and the body has MaxChunks chunks
\* at most.
Successors(p, pc) ==
    { nxt \in Then[pc] :
        /\ pc = "update_129" =>
              nxt = (CASE store_as = "msz" -> "update_140"
                       [] store_as = "mzml" -> "update_149"
                       [] OTHER -> "get_181")
        /\ nxt = "write_114" => h[p].chunk_count < MaxChunks }

\* The keyword arguments of the update made at each position.
KwargsAt(p, pc) ==
    CASE pc \in {"update_118", "update_121"} -> FinalUpdate(h[p].bytes_received)
      [] pc = "update_124" -> ReceiveErrorUpdate("disk full")
      [] pc = "update_129" -> Fields(Some(RECEIVED), None, None, None)
      [] pc = "update_140" ->
            DoneUpdateStaging(h[p].original_filename[1], h[p].bytes_received)
      [] pc = "update_149" -> Fields(Some(DECOMPRESSING), None, None, None)
      [] pc = "update_164" ->
            DoneUpdate(h[p].original_filename[1], h[p].bytes_received)
      [] pc = "update_173" -> DecompressErrorUpdate("disk full")
      [] OTHER -> Fields(None, None, None, None)

\* The order in which the call sites name their keyword arguments, which is
\* the order of kwargs.items().
KeyOrder == <<"state", "stored_as", "bytes_received", "error">>

\* State.py line 32 for one key: setattr(record, key, value).
setattr_key(rec, kwargs, key) ==
    CASE key = "state" -> [rec EXCEPT !.state = kwargs.state[1]]
      [] key = "stored_as" -> [rec EXCEPT !.stored_as = kwargs.stored_as[1]]
      [] key = "bytes_received" ->
            [rec EXCEPT !.bytes_received = kwargs.bytes_received[1]]
      [] key = "error" -> [rec EXCEPT !.error = kwargs.error[1]]

\* The keys of kwargs that the loop of lines 31-32 has still to set: setting
\* a field to the value it holds already changes nothing.
Pending(rec, kwargs) ==
    { k \in 1..Len(KeyOrder) :
        /\ kwargs[KeyOrder[k]] # None
        /\ setattr_key(rec, kwargs, KeyOrder[k]) # rec }

\* A with block that leaves the lock with the thread that took it.
with_exit_held(holder) == holder

\* The exit of `with self._lock:`.
with_exit(holder) == 0

\* A handler that gives the loop away after every step, as if the registry
\* methods and the code between them could be interleaved.
KeepsNothing(p, pc) == 0

\* The handler that keeps the loop after a step to position pc: a handler
\* gives the loop away at an await and when it has responded.
Keeps(p, pc) == IF pc \in Awaits \cup {"responded"} THEN 0 ELSE p

\* A request arrives and its handler runs up to its first registry call.
lock_request(p) ==
    /\ loop = 0
    /\ h[p].pc = "idle"
    /\ \E pc \in Then["idle"], tid \in TransferIds :
          /\ h' = [h EXCEPT ![p].pc = pc, ![p].transfer_id = Some(tid),
                            ![p].original_filename = Some(RegistryFileName)]
          /\ loop' = Keeps(p, pc)
    /\ UNCHANGED <<store_as, records, files, now, op, cap, names, auth, creds, reply,
                   lock, client>>

\* `with self._lock:` is entered: a thread waits here while another holds it.
lock_enter(p) ==
    /\ loop \in {0, p}
    /\ h[p].pc \in RegistryCalls
    /\ lock = 0
    /\ lock' = p
    /\ loop' = Keeps(p, h[p].pc)
    /\ UNCHANGED <<store_as, records, files, now, h, op, cap, names, auth, creds, reply,
                   client>>

\* State.py line 19, inside the lock: the new record replaces what the map held.
lock_create(p) ==
    /\ lock = p
    /\ h[p].pc = "create_100"
    /\ LET tid == h[p].transfer_id[1]
           record == TransferRecord(tid, h[p].original_filename[1], now)
       IN  /\ get(records, tid) # Some(record)
           /\ records' = create(records, tid, h[p].original_filename[1], now)
    /\ UNCHANGED <<store_as, files, now, h, loop, op, cap, names, auth, creds, reply,
                   lock, client>>

\* State.py lines 31-32, inside the lock: one more field of the record is set.
lock_setattr(p) ==
    /\ lock = p
    /\ h[p].pc \in RegistryCalls \ {"create_100", "get_57", "get_181"}
    /\ LET tid == h[p].transfer_id[1]
           kwargs == KwargsAt(p, h[p].pc)
       IN  /\ tid \in DOMAIN records
           /\ Pending(records[tid], kwargs) # {}
           /\ LET k == CHOOSE k \in Pending(records[tid], kwargs) :
                          \A j \in Pending(records[tid], kwargs) : k <= j
              IN  records' = [records EXCEPT
                                ![tid] = setattr_key(@, kwargs, KeyOrder[k])]
    /\ UNCHANGED <<store_as, files, now, h, loop, op, cap, names, auth, creds, reply,
                   lock, client>>

\* The body of the method is complete.
BodyDone(p) ==
    LET tid == h[p].transfer_id[1] IN
    CASE h[p].pc = "create_100" ->
            get(records, tid)
              = Some(TransferRecord(tid, h[p].original_filename[1], now))
      [] h[p].pc \in {"get_57", "get_181"} -> TRUE
      [] OTHER -> \/ tid \notin DOMAIN records
                  \/ Pending(records[tid], KwargsAt(p, h[p].pc)) = {}

\* The method returns: the with block is left.
lock_exit(p) ==
    /\ lock = p
    /\ BodyDone(p)
    /\ lock' = with_exit(p)
    /\ \E pc \in Successors(p, h[p].pc) :
          /\ h' = [h EXCEPT ![p].pc = pc]
          /\ loop' = Keeps(p, pc)
    /\ UNCHANGED <<store_as, records, files, now, op, cap, names, auth, creds, reply,
                   client>>

\* An awaited operation finishes and the handler runs on; a chunk that has
\* been written is counted (routes.py lines 115-116).
lock_await(p) ==
    /\ loop = 0
    /\ h[p].pc \in Awaits
    /\ \E pc \in Successors(p, h[p].pc) :
          /\ h' = IF h[p].pc = "write_114" /\ pc # "update_124"
                  THEN [h EXCEPT ![p].pc = pc,
                                 ![p].bytes_received = @ + MaxChunkLen,
                                 ![p].chunk_count = @ + 1]
                  ELSE [h EXCEPT ![p].pc = pc]
          /\ loop' = Keeps(p, pc)
    /\ UNCHANGED <<store_as, records, files, now, op, cap, names, auth, creds, reply,
                   lock, client>>

\* Routes.py lines 60-62: the record that get returned is the object the
\* registry holds; it is read when the answer is built.
lock_return(p) ==
    /\ loop \in {0, p}
    /\ h[p].pc = "return_62"
    /\ LET record == get(records, h[p].transfer_id[1]) IN
          reply' = IF record = None
                   THEN Reply("status", 404, [detail |-> "Transfer not found"])
                   ELSE Reply("status", 200, record[1])
    /\ h' = [h EXCEPT ![p].pc = "responded"]
    /\ loop' = Keeps(p, "responded")
    /\ UNCHANGED <<store_as, records, files, now, op, cap, names, auth, creds,
                   lock, client>>

InitLock ==
    /\ store_as \in StoreAsValues
    /\ records = EmptyMap
    /\ files = EmptyMap
    /\ now = 0
    /\ h = [p \in Handlers |-> Handler0]
    /\ loop = 0
    /\ op = NoCall
    /\ cap = 0
    /\ names = {}
    /\ auth = None
    /\ creds = NoCredentials
    /\ reply = NoReply
    /\ sender = NoSender
    /\ batch = NoBatch
    /\ progress = <<>>
    /\ resolver = NoResolver
    /\ producer = NoProducer
    /\ lock = 0

NextLock ==
    \/ \E p \in Handlers : lock_request(p)
    \/ \E p \in Handlers : lock_enter(p)
    \/ \E p \in Handlers : lock_create(p)
    \/ \E p \in Handlers : lock_setattr(p)
    \/ \E p \in Handlers : lock_exit(p)
    \/ \E p \in Handlers : lock_await(p)
    \/ \E p \in Handlers : lock_return(p)

SpecLock == InitLock /\ [][NextLock]_vars

----------------------------------------------------------------------------
(* client/sender.py: the body producers.  A generator runs from one yield  *)
(* to the next when its consumer asks for a chunk; the callback records    *)
(* the delta it is called with.  Bytes are numbered by their position so   *)
(* that a chunk out of place or doubled would show.                        *)

MaxFileLen == 3
MaxIterLen == 2

\* The file contents, the chunk sizes and the wrapped iterators tried.
FileContents == { [i \in 1..n |-> i] : n \in 0..MaxFileLen }
ChunkSizes == -1..(MaxFileLen + 1)
IterChunks == { <<>>, <<1>>, <<1, 2>> }
Iterators == UNION { [1..n -> IterChunks] : n \in 0..MaxIterLen }

RECURSIVE Flatten(_)
Flatten(chunks) ==
    IF chunks = <<>> THEN <<>> ELSE Head(chunks) \o Flatten(Tail(chunks))

RECURSIVE Sum(_)
Sum(ints) == IF ints = <<>> THEN 0 ELSE Head(ints) + Sum(Tail(ints))

\* f.read(n) at offset pos: up to n bytes, the rest of the file when n < 0.
read(data, pos, n) ==
    IF n < 0 THEN SubSeq(data, pos + 1, Len(data))
    ELSE SubSeq(data, pos + 1, min(pos + n, Len(data)))

\* list(_file_chunk_generator(file_path, chunk_size)) for a file holding data.
RECURSIVE file_chunks(_, _, _)
file_chunks(data, pos, chunk_size) ==
    LET chunk == read(data, pos, chunk_size) IN
    IF chunk = <<>> THEN <<>>
    ELSE <<chunk>> \o file_chunks(data, pos + Len(chunk), chunk_size)

\* Lines 91-93: the next read; an empty read ends the generator.
file_chunk_read ==
    /\ producer.kind = "file"
    /\ producer.pc = "next"
    /\ LET chunk == read(producer.source, producer.pos, producer.chunk_size) IN
       producer' =
          IF chunk = <<>> THEN [producer EXCEPT !.pc = "done"]
          ELSE [producer EXCEPT !.pc = IF producer.callback THEN "callback"
                                       ELSE "yield",
                                !.chunk = chunk,
                                !.pos = @ + Len(chunk)]
    /\ UNCHANGED <<server, sender, batch, progress, resolver>>

\* Line 77: the next chunk of the wrapped iterator; its end ends the generator.
counting_next ==
    /\ producer.kind = "counting"
    /\ producer.pc = "next"
    /\ producer' =
          IF producer.pos = Len(producer.iterator)
          THEN [producer EXCEPT !.pc = "done"]
          ELSE [producer EXCEPT !.pc = IF producer.callback THEN "callback"
                                       ELSE "yield",
                                !.chunk = producer.iterator[producer.pos + 1],
                                !.pos = @ + 1]
    /\ UNCHANGED <<server, sender, batch, progress, resolver>>

\* Lines 78-79 and 94-95: callback(len(chunk)).
producer_callback ==
    /\ producer.pc = "callback"
    /\ producer' = [producer EXCEPT !.pc = "yield",
                                    !.deltas = Append(@, Len(producer.chunk))]
    /\ UNCHANGED <<server, sender, batch, progress, resolver>>

\* Lines 80 and 96: yield chunk.
producer_yield ==
    /\ producer.pc = "yield"
    /\ producer' = [producer EXCEPT !.pc = "next",
                                    !.yielded = Append(@, producer.chunk),
                                    !.chunk = <<>>]
    /\ UNCHANGED <<server, sender, batch, progress, resolver>>

\* A producer has been created over any of the inputs and is being consumed.
InitProducer ==
    /\ store_as = "msz"
    /\ records = EmptyMap
    /\ files = EmptyMap
    /\ now = 0
    /\ h = [p \in Handlers |-> [Handler0 EXCEPT !.pc = "off"]]
    /\ loop = 0
    /\ op = NoCall
    /\ cap = 0
    /\ names = {}
    /\ auth = None
    /\ creds = NoCredentials
    /\ reply = NoReply
    /\ sender = NoSender
    /\ batch = NoBatch
    /\ progress = <<>>
    /\ resolver = NoResolver
    /\ lock = 0
    /\ \/ \E data \in FileContents, chunk_size \in ChunkSizes, callback \in BOOLEAN :
            producer = [NoProducer EXCEPT !.pc = "next", !.kind = "file",
                                          !.source = data,
                                          !.chunk_size = chunk_size,
                                          !.callback = callback]
       \/ \E iterator \in Iterators, callback \in BOOLEAN :
            producer = [NoProducer EXCEPT !.pc = "next", !.kind = "counting",
                                          !.source = Flatten(iterator),
                                          !.iterator = iterator,
                                          !.callback = callback]

NextProducer ==
    \/ file_chunk_read
    \/ counting_next
    \/ producer_callback
    \/ producer_yield

SpecProducer == InitProducer /\ [][NextProducer]_vars

----------------------------------------------------------------------------
(* Properties *)

\* What the claims call a missing or empty header.
Missing(v) == v = None \/ v = Some(<<>>)

\* Handler p leaves "idle" in this step with both headers present and non-empty.
Accepted(p) ==
    /\ h[p].pc = "idle"
    /\ h'[p].pc # "idle"
    /\ ~Missing(h'[p].transfer_id)
    /\ ~Missing(h'[p].original_filename)

Responded(p) == h[p].pc = "responded"

\* C1: an upload whose transfer id already has a record is answered 409 and
\* leaves the registry as it was.
C1_DuplicateIdRejected ==
    [][ \A p \in Handlers :
          (Accepted(p) /\ h'[p].transfer_id[1] \in DOMAIN records)
          => (h'[p].response.status = 409 /\ records' = records) ]_vars

Transitions ==
    { <<RECEIVING, RECEIVED>>, <<RECEIVED, DONE>>, <<RECEIVED, DECOMPRESSING>>,
      <<DECOMPRESSING, DONE>> }
    \cup { <<s, ERROR>> : s \in TransferState \ terminal }

\* C2: the state of the record of a transfer id only ever moves along
\* receiving -> received -> [decompressing ->] done, or from a non-terminal
\* state to error; it never leaves done or error.
C2_StatePath ==
    [][ \A t \in DOMAIN records \cap DOMAIN records' :
          \/ records'[t].state = records[t].state
          \/ <<records[t].state, records'[t].state>> \in Transitions ]_vars

\* C3: an update of a record that is done or error changes no field of it.
C3_TerminalUpdateNoOp ==
    [][ \A t \in DOMAIN records :
          (records[t].state \in terminal /\ op'.name = "update" /\ op'.tid = t)
          => records'[t] = records[t] ]_vars

\* C4: when the body has been received without error, the record holds the
\* exact number of body bytes before its state leaves receiving, the 200
\* response carries that number, the record keeps it, and a status read made
\* after the response returns it.
C4_ExactCount ==
    /\ [][ \A p \in Handlers :
             (h[p].pc = "received" /\ h'[p].pc # "received")
             => /\ records[h[p].transfer_id[1]].state = RECEIVING
                /\ records[h[p].transfer_id[1]].bytes_received = h[p].sent ]_vars
    /\ [](\A p \in Handlers :
            (Responded(p) /\ h[p].response.status = 200)
            => /\ h[p].response.bytes_received = h[p].sent
               /\ h[p].transfer_id[1] \in DOMAIN records
               /\ records[h[p].transfer_id[1]].bytes_received = h[p].sent
               /\ (op.name = "get" /\ op.tid = h[p].transfer_id[1])
                  => (op.ret # None /\ op.ret[1].bytes_received = h[p].sent))

\* C4 witness: a body of 65 one-byte chunks (one more than the throttle) was
\* answered 200 and a status read returned 65.
C4_Witness ==
    \E p \in Handlers :
        /\ Responded(p)
        /\ h[p].response.status = 200
        /\ h[p].sent = update_every + 1
        /\ op.name = "get"
        /\ op.ret # None
        /\ op.ret[1].bytes_received = update_every + 1

\* C5: within the life of a record (create steps apart), bytes_received
\* never decreases.
C5_BytesMonotonic ==
    [][ \A t \in DOMAIN records \cap DOMAIN records' :
          op'.name # "create"
          => records'[t].bytes_received >= records[t].bytes_received ]_vars

\* C6: in msz mode, the record of an upload that was answered done names a
\* file that exists, has bytes_received bytes and holds that upload's body;
\* stated for uploads whose transfer id no other upload uses.
C6_DoneFileMatches ==
    store_as = "msz" =>
    \A p \in Handlers :
        ( /\ Responded(p)
          /\ h[p].response.status = 200
          /\ h[p].response.state = DONE
          /\ \A q \in Handlers \ {p} : h[q].transfer_id # h[p].transfer_id )
        => LET r == records[h[p].transfer_id[1]] IN
           /\ r.state = DONE
           /\ r.stored_as \in DOMAIN files
           /\ Len(files[r.stored_as].data) = r.bytes_received
           /\ files[r.stored_as].data = Chunk(p, h[p].sent)

\* C7: an upload that starts while its staging path exists is answered 409,
\* and opening the staging file never changes a file that is already there.
C7_StagingPathRejected ==
    [][ \A p \in Handlers :
          /\ (Accepted(p) /\ msz_path(h'[p].original_filename[1]) \in DOMAIN files)
             => h'[p].response.status = 409
          /\ ( /\ h[p].pc = "open"
               /\ h'[p].pc # "open"
               /\ msz_path(h[p].original_filename[1]) \in DOMAIN files )
             => files' = files ]_vars

\* C8: the answer is 200 exactly when the record ends done or decompressing;
\* a missing header gives 400, a transfer id that has a record gives 409, a
\* failure of the receive phase gives 500.
C8_StatusCodes ==
    [][ \A p \in Handlers :
          /\ (h[p].pc = "idle" /\ h'[p].pc # "idle"
                /\ (Missing(h'[p].transfer_id) \/ Missing(h'[p].original_filename)))
             => h'[p].response.status = 400
          /\ (Accepted(p) /\ h'[p].transfer_id[1] \in DOMAIN records)
             => h'[p].response.status = 409
          /\ (h[p].pc \in {"open", "stream"} /\ h'[p].pc = "responded")
             => h'[p].response.status = 500
          /\ (h[p].pc # "responded" /\ h'[p].pc = "responded"
                /\ ~Missing(h'[p].transfer_id) /\ ~Missing(h'[p].original_filename))
             => ( h'[p].response.status = 200
                  <=> /\ h'[p].transfer_id[1] \in DOMAIN records'
                      /\ records'[h'[p].transfer_id[1]].state \in {DONE, DECOMPRESSING} )
      ]_vars

\* C9: a 200 response carries state done or error, and the record it was
\* taken from is not changed after the response.
C9_ResponseIsFinal ==
    [][ \A p \in Handlers :
          (h'[p].pc = "responded" /\ h'[p].response.status = 200)
          => /\ h'[p].response.state \in terminal
             /\ Responded(p)
                => ( /\ h[p].transfer_id[1] \in DOMAIN records'
                     /\ records'[h[p].transfer_id[1]] = records[h[p].transfer_id[1]] )
      ]_vars

\* C10: a request whose X-Transfer-ID or X-Original-Filename is missing or
\* empty is answered 400, the detail naming the first such header, and the
\* step changes neither the registry nor the output directory.
C10_MissingHeaderRejected ==
    [][ \A p \in Handlers :
          ( /\ h[p].pc = "idle"
            /\ h'[p].pc # "idle"
            /\ (Missing(h'[p].transfer_id) \/ Missing(h'[p].original_filename)) )
          => /\ h'[p].pc = "responded"
             /\ h'[p].response.status = 400
             /\ h'[p].response.detail =
                  IF Missing(h'[p].transfer_id)
                  THEN <<"Missing X-Transfer-ID header">>
                  ELSE <<"Missing X-Original-Filename header">>
             /\ records' = records
             /\ files' = files ]_vars

\* C10 witness: a request with an empty X-Original-Filename was answered 400
\* while another upload's record and staging file exist.
C10_Witness ==
    \E p \in Handlers :
        /\ Responded(p)
        /\ h[p].response.status = 400
        /\ h[p].original_filename = Some(<<>>)
        /\ DOMAIN records # {}
        /\ DOMAIN files # {}

\* C11: when the receive phase fails (opening the staging file, reading or
\* writing a chunk), the step that ends the handler sets the record to error
\* with the stringified cause and answers 500; and no handler that accepted
\* its headers ends while the record is in state receiving.
C11_ReceiveFailureRecorded ==
    [][ \A p \in Handlers :
          /\ (h[p].pc \in {"open", "stream"} /\ h'[p].pc = "responded")
             => /\ h'[p].response.status = 500
                /\ h[p].transfer_id[1] \in DOMAIN records'
                /\ records'[h[p].transfer_id[1]].state = ERROR
                /\ records'[h[p].transfer_id[1]].error # None
                /\ h'[p].response.detail =
                     <<"Error receiving data: ", records'[h[p].transfer_id[1]].error[1]>>
          /\ (h[p].pc \notin {"idle", "auth", "responded"} /\ h'[p].pc = "responded")
             => /\ h[p].transfer_id[1] \in DOMAIN records'
                /\ records'[h[p].transfer_id[1]].state # RECEIVING ]_vars

\* C11 witness: an upload failed after a byte of its body was written; it was
\* answered 500 and its record is in error with the cause.
C11_Witness ==
    \E p \in Handlers :
        /\ Responded(p)
        /\ h[p].response.status = 500
        /\ h[p].sent > 0
        /\ records[h[p].transfer_id[1]].state = ERROR
        /\ records[h[p].transfer_id[1]].error = Some("disk full")

\* C12: a status request is answered 200 with the record the registry holds
\* for the id, or 404 when it holds none, and leaves the registry as it was;
\* it can run whenever the event loop is free, and an upload that waits for
\* its body, for the decompression thread or for the removal does not hold
\* the loop.
C12_StatusRead ==
    /\ [][ reply'.route = "status"
            => /\ records' = records
               /\ IF op'.tid \in DOMAIN records
                  THEN reply'.status = 200 /\ reply'.body = records[op'.tid]
                  ELSE reply'.status = 404 ]_vars
    /\ [](\A p \in Handlers :
            h[p].pc \in {"open", "stream", "decompress", "remove", "done"}
            => /\ loop # p
               /\ loop = 0 => \A t \in TransferIds : ENABLED transfer_status(t))

\* C12 witness: a status request was answered with a record in state
\* decompressing while the decompression of that upload was running.
C12_Witness ==
    /\ reply.route = "status"
    /\ reply.status = 200
    /\ reply.body.state = DECOMPRESSING
    /\ \E p \in Handlers :
          h[p].pc = "decompress" /\ h[p].transfer_id = Some(reply.body.transfer_id)

\* C13: in every state, the error field of a record is non-empty exactly
\* when the record is in state error.
C13_ErrorIffErrorState ==
    \A t \in DOMAIN records :
        (records[t].error # None /\ records[t].error # Some(""))
        <=> records[t].state = ERROR

\* C14: in every state, stored_as of a record is non-empty exactly when the
\* record is in state done, and every update that makes a record done sets
\* stored_as in that same update.
C14_StoredAsIffDone ==
    /\ [](\A t \in DOMAIN records :
            records[t].stored_as # <<>> <=> records[t].state = DONE)
    /\ [][ \A t \in DOMAIN records \cap DOMAIN records' :
             (records[t].state # DONE /\ records'[t].state = DONE)
             => (records[t].stored_as = <<>> /\ records'[t].stored_as # <<>>) ]_vars

\* C15: in mzml mode, the step that completes a decompressed upload sets the
\* record to done with stored_as <stem>.mzML; in the state it produces,
\* <stem>.msz does not exist and <stem>.mzML does; and the response that
\* follows carries done and that path.
C15_DecompressedDone ==
    [][ \A p \in Handlers :
          /\ (h[p].pc = "done" /\ h'[p].pc = "return")
             => /\ store_as = "mzml"
                /\ records'[h[p].transfer_id[1]].state = DONE
                /\ records'[h[p].transfer_id[1]].stored_as =
                      mzml_path(h[p].original_filename[1])
                /\ msz_path(h[p].original_filename[1]) \notin DOMAIN files'
                /\ mzml_path(h[p].original_filename[1]) \in DOMAIN files'
          /\ ( /\ h[p].pc = "return"
               /\ h'[p].pc = "responded"
               /\ store_as = "mzml"
               /\ records[h[p].transfer_id[1]].state = DONE )
             => /\ h'[p].response.status = 200
                /\ h'[p].response.state = DONE
                /\ h'[p].response.stored_as = mzml_path(h[p].original_filename[1]) ]_vars

\* Another upload has opened the staging path that handler p used.
ReopenedByOther(p) ==
    \E q \in Handlers \ {p} :
        /\ h[q].pc \notin {"off", "auth", "idle", "open"}
        /\ ~Missing(h[q].transfer_id)
        /\ ~Missing(h[q].original_filename)
        /\ msz_path(h[q].original_filename[1]) = msz_path(h[p].original_filename[1])

\* C15 as amended: as C15, except that <stem>.msz may exist when the record
\* becomes done if another upload with the same stem has opened it; in every
\* other case it does not exist.
C15_DecompressedDoneAmended ==
    [][ \A p \in Handlers :
          /\ (h[p].pc = "done" /\ h'[p].pc = "return")
             => /\ store_as = "mzml"
                /\ records'[h[p].transfer_id[1]].state = DONE
                /\ records'[h[p].transfer_id[1]].stored_as =
                      mzml_path(h[p].original_filename[1])
                /\ \/ msz_path(h[p].original_filename[1]) \notin DOMAIN files'
                   \/ ReopenedByOther(p)
                /\ mzml_path(h[p].original_filename[1]) \in DOMAIN files'
          /\ ( /\ h[p].pc = "return"
               /\ h'[p].pc = "responded"
               /\ store_as = "mzml"
               /\ records[h[p].transfer_id[1]].state = DONE )
             => /\ h'[p].response.status = 200
                /\ h'[p].response.state = DONE
                /\ h'[p].response.stored_as = mzml_path(h[p].original_filename[1]) ]_vars

\* C15 witness: in mzml mode an upload was answered done with the .mzML
\* path, the decompressed file exists and the staging file does not.
C15_Witness ==
    \E p \in Handlers :
        /\ store_as = "mzml"
        /\ Responded(p)
        /\ h[p].response.status = 200
        /\ h[p].response.state = DONE
        /\ h[p].response.stored_as = mzml_path(h[p].original_filename[1])
        /\ h[p].sent > 0
        /\ mzml_path(h[p].original_filename[1]) \in DOMAIN files
        /\ msz_path(h[p].original_filename[1]) \notin DOMAIN files

\* C16: in mzml mode, when the conversion step (building MSZFile, the
\* decompression, the removal) fails, the record is set to error, its
\* stored_as is empty, and the staging file <stem>.msz exists.
C16_FailedConversionKeepsStaging ==
    [][ \A p \in Handlers :
          (h[p].pc \in {"msz_file", "decompress", "remove"} /\ h'[p].pc = "return")
          => /\ records'[h[p].transfer_id[1]].state = ERROR
             /\ records'[h[p].transfer_id[1]].stored_as = <<>>
             /\ msz_path(h[p].original_filename[1]) \in DOMAIN files' ]_vars

\* C17: while the decompression of an upload runs, that upload does not hold
\* the event loop: when the loop is free a health request and a status
\* request can be served at once, and so can the next chunk of any other
\* upload that is receiving its body.
C17_LoopFreeWhileDecompressing ==
    \A p \in Handlers :
        h[p].pc = "decompress"
        => /\ loop # p
           /\ loop = 0
              => /\ ENABLED health
                 /\ \A t \in TransferIds : ENABLED transfer_status(t)
                 /\ \A q \in Handlers \ {p} :
                      (h[q].pc = "stream" /\ h[q].chunk_count < cap)
                      => ENABLED upload_chunk(q)

\* C17 witness: a health request was answered while a decompression was
\* running and another upload was receiving its body.
C17_Witness ==
    /\ reply.route = "health"
    /\ reply.status = 200
    /\ \E p, q \in Handlers :
          /\ p # q
          /\ h[p].pc = "decompress"
          /\ h[q].pc = "stream"
          /\ h[q].sent > 0

\* What the claims call matching credentials: the Authorization header is
\* "Bearer " followed by the configured key, or the api_key parameter is the
\* configured key.
ValidCredentials(c, key) ==
    \/ c.Authorization = <<"Bearer ">> \o key
    \/ c.api_key = Some(key)

\* C18: with the api-key provider configured, every health request is
\* answered 200 with status ok whatever credentials were last presented,
\* while an upload or a status request reaches its handler only with
\* matching credentials and is answered 401 when it carries none.
C18_HealthBypassesAuth ==
    [][ /\ reply'.route = "health"
           => (reply'.status = 200 /\ reply'.body.status = "ok")
        /\ \A p \in Handlers :
             (h[p].pc = "auth" /\ h'[p].pc # "auth")
             => /\ h'[p].pc = "idle" => ValidCredentials(creds', auth[1])
                /\ creds' = NoCredentials
                   => (h'[p].pc = "responded" /\ h'[p].response.status = 401)
        /\ reply'.route = "status"
           => /\ reply'.status \in {200, 404} => ValidCredentials(creds', auth[1])
              /\ creds' = NoCredentials => reply'.status = 401 ]_vars

\* C18 witness: a health request was answered 200 right after an upload
\* with a wrong key was turned away with 401.
C18_Witness ==
    /\ auth # None
    /\ reply.route = "health"
    /\ reply.status = 200
    /\ creds.Authorization = <<"Bearer ", "x">>
    /\ \E p \in Handlers : Responded(p) /\ h[p].response.status = 401

\* C19: a request to the upload or status route passes the api-key provider
\* exactly when its credentials match; every other request is answered 401,
\* and the step changes neither the registry nor the output directory.
C19_ApiKeyIff ==
    [][ /\ \A p \in Handlers :
             (h[p].pc = "auth" /\ h'[p].pc # "auth")
             => IF ValidCredentials(creds', auth[1])
                THEN h'[p].pc = "idle"
                ELSE /\ h'[p].pc = "responded"
                     /\ h'[p].response.status = 401
                     /\ records' = records
                     /\ files' = files
        /\ reply'.route = "status"
           => IF ValidCredentials(creds', auth[1])
              THEN reply'.status \in {200, 404}
              ELSE reply'.status = 401 /\ records' = records ]_vars

\* A path relative to output_dir that names a direct child of it: one
\* component, which is neither "." nor "..".
DirectChild(path) ==
    /\ path # <<>>
    /\ \A i \in 1..Len(path) : path[i] # "/"
    /\ path # <<".">>
    /\ path # <<".", ".">>

\* The part of a header value after its last directory separator.
AfterLastSlash(s) ==
    LET slashes == { i \in 1..Len(s) : s[i] = "/" }
        last == IF slashes = {} THEN 0
                ELSE CHOOSE i \in slashes : \A j \in slashes : j <= i
    IN  SubSeq(s, last + 1, Len(s))

\* C20: whatever X-Original-Filename an upload carries, its staging path and
\* its decompressed path are direct children of the output directory, built
\* from the last path component alone, and every file that exists under the
\* output directory is a direct child of it.
C20_NoPathTraversal ==
    /\ \A path \in DOMAIN files : DirectChild(path)
    /\ \A p \in Handlers :
          ( /\ h[p].pc \notin {"off", "auth", "idle"}
            /\ ~Missing(h[p].transfer_id)
            /\ ~Missing(h[p].original_filename) )
          => LET f == h[p].original_filename[1] IN
             /\ DirectChild(msz_path(f))
             /\ DirectChild(mzml_path(f))
             /\ AfterLastSlash(f) \notin { <<>>, <<".">> }
                => msz_path(f) = msz_path(AfterLastSlash(f))

\* C20 witness: an upload named "../a" was stored, and its file is
\* output_dir/a.msz.
C20_Witness ==
    \E p \in Handlers :
        /\ h[p].original_filename = Some(<<".", ".", "/", "a">>)
        /\ Responded(p)
        /\ h[p].response.status = 200
        /\ h[p].response.stored_as = <<"a", ".", "msz">>
        /\ <<"a", ".", "msz">> \in DOMAIN files

\* C21: cleanup(max_age) removes exactly the records that are done or error
\* and were created before now - max_age, returns how many it removed, and
\* leaves every other record in place and unchanged; a record that is
\* receiving, received or decompressing stays, whatever its age.
C21_SweepExact ==
    [][ \A a \in MaxAges :
          registry_cleanup(a)
          => LET old == { t \in DOMAIN records :
                            /\ records[t].state \in {DONE, ERROR}
                            /\ records[t].created_at < now - a }
             IN  /\ DOMAIN records' = DOMAIN records \ old
                 /\ \A t \in DOMAIN records' : records'[t] = records[t]
                 /\ op'.removed = Cardinality(old)
                 /\ \A t \in DOMAIN records :
                       records[t].state \in {RECEIVING, RECEIVED, DECOMPRESSING}
                       => t \in DOMAIN records' ]_vars

\* C21 witness: a sweep has just removed one record and kept another that
\* is older than max_age but still in progress.
C21_Witness ==
    /\ op.name = "cleanup"
    /\ op.removed = 1
    /\ \E t \in DOMAIN records :
          /\ records[t].state \notin terminal
          /\ records[t].created_at < now

\* send_batch has returned its list.
BatchReturned == batch.pc = "returned"

\* A batch that ThreadPoolExecutor accepts: at least one file and a
\* positive parallelism.
BatchAccepted == Len(batch.file_paths) >= 1 /\ batch.parallel >= 1

\* C22: the list send_batch returns has one entry per input, and the entry
\* at each position carries the basename of the input at that position,
\* whatever the parallelism and the order in which the transfers finish.
C22_ResultsInInputOrder ==
    BatchReturned
    => /\ Len(batch.results) = Len(batch.file_paths)
       /\ \A i \in 1..Len(batch.file_paths) :
             batch.results[i].filename = Name(batch.file_paths[i])

\* C23: a failure that concerns one file (its send raising, or the file not
\* being there to inspect) never makes send_batch raise or skip the other
\* files: send_batch returns one FileResult per file, and the failed file's
\* entry carries a non-empty error.
C23_FailureIsolated ==
    BatchAccepted
    => /\ batch.pc \notin {"shutdown", "raised"}
       /\ BatchReturned
          => /\ Len(batch.results) = Len(batch.file_paths)
             /\ \A idx \in 1..Len(batch.file_paths) :
                   batch.futures[idx].exception # None
                   => \E j \in 1..Len(batch.results) :
                         /\ batch.results[j].filename = Name(batch.file_paths[idx])
                         /\ batch.results[j].error # None
                         /\ batch.results[j].error[1] # ""

\* The calls of one index so far are a beginning of
\* file_started, file_progress*, (file_done | file_error).
InOrder(calls) ==
    \A k \in 1..Len(calls) :
        /\ (k = 1) <=> (calls[k].call = "file_started")
        /\ calls[k].call \in {"file_done", "file_error"} => k = Len(calls)

Closed(calls) ==
    /\ calls # <<>>
    /\ Last(calls).call \in {"file_done", "file_error"}

\* C24: for every index the listener's calls come in the order file_started,
\* file_progress any number of times, then one of file_done and file_error:
\* no call for an index comes before its file_started or after its file_done
\* or file_error, however the threads interleave, and when send_batch
\* returns every index has had its file_done or file_error.
C24_ListenerOrder ==
    /\ \A k \in 1..Len(progress) :
          progress[k].index \in 1..Len(batch.file_paths)
    /\ \A idx \in 1..Len(batch.file_paths) :
          /\ InOrder(CallsOf(progress, idx))
          /\ BatchReturned => Closed(CallsOf(progress, idx))

\* C24 witness: two transfers ran at the same time, both reported progress,
\* the second finished and was reported first, and send_batch has returned.
C24_Witness ==
    /\ BatchReturned
    /\ Len(progress) = 8
    /\ progress[1].call = "file_started" /\ progress[1].index = 1
    /\ progress[2].call = "file_started" /\ progress[2].index = 2
    /\ progress[3].call = "file_progress" /\ progress[3].index = 2
    /\ progress[4].call = "file_progress" /\ progress[4].index = 1
    /\ progress[7].call = "file_error" /\ progress[7].index = 2
    /\ progress[8].call = "file_done" /\ progress[8].index = 1

\* C25: the pool is built for min(P, len(paths)) workers, it never has more
\* threads than that, and never more than that many sends run at once.
C25_PoolSize ==
    batch.pc \notin {"off", "start"}
    => LET P == batch.parallel
           N == Len(batch.file_paths)
           cap_ == IF P <= N THEN P ELSE N
       IN  /\ batch.workers = cap_
           /\ batch.threads <= cap_
           /\ Cardinality(Running) <= cap_

\* C25 witness: with parallelism 1 and two files one send runs while the
\* other waits in the queue.
C25_Witness ==
    /\ batch.parallel = 1
    /\ Len(batch.file_paths) = 2
    /\ Len(batch.futures) = 2
    /\ batch.futures[1].state = "RUNNING"
    /\ batch.futures[2].state = "PENDING"
    /\ batch.threads = 1

\* C30: the total_bytes given to file_started is the size on disk for an
\* input whose extension is .msz or .mszx in any case, and None for an mzML
\* input.
C30_TotalBytes ==
    \A k \in 1..Len(progress) :
        progress[k].call = "file_started"
        => LET fpath == batch.file_paths[progress[k].index] IN
           /\ suffix_lower(fpath) \in { <<".", "msz">>, <<".", "mszx">> }
              => progress[k].arg = Some(Disk[fpath])
           /\ suffix_lower(fpath) = <<".", "mzml">> => progress[k].arg = None

\* The poller has got an answer 200 to a status request in this step.
Observed ==
    /\ sender.pc = "poll"
    /\ sender'.pc \in {"sleep", "returned"}
    /\ reply'.status = 200

\* The answer shows progress since the answer before it: there was none
\* before, or the state differs, or bytes_received is greater.
ProgressObserved ==
    /\ Observed
    /\ \/ sender.record = None
       \/ reply'.body.state # sender.record[1].state
       \/ reply'.body.bytes_received > sender.record[1].bytes_received

PollerEnded == sender.pc \in {"returned", "raised"}

\* C26: whenever a poll observes a state other than the one observed before,
\* or a greater bytes_received than the one observed before, the deadline is
\* set to now + T, and a poll that observes done or error returns that state
\* at once.
C26_DeadlineReset ==
    [][ Observed
        => /\ reply'.body.state \in {DONE, ERROR}
              => /\ sender'.pc = "returned"
                 /\ sender'.upload_result.state = reply'.body.state
           /\ (reply'.body.state \notin {DONE, ERROR} /\ ProgressObserved)
              => sender'.deadline = Timeout ]_vars

\* C27: the poller ends.  It asks the status route only while the deadline
\* has not passed, no step of it changes a record, and unless progress keeps
\* being observed it returns a terminal state or raises TimeoutError, also
\* when every answer is 404.
C27_PollerTerminates ==
    /\ [][ (sender.pc = "poll" /\ sender'.pc # "poll")
           => /\ records' = records
              /\ sender'.pc = "raised" <=> sender.deadline <= 0
              /\ sender'.pc = "raised"
                 => sender'.raised = Raised("TimeoutError", NoResponse) ]_vars
    /\ (<>[][~ProgressObserved]_vars) => <>PollerEnded

\* C27 witness: the poller has raised TimeoutError after being answered 404
\* only, and the registry holds no record.
C27_Witness ==
    /\ sender.pc = "raised"
    /\ sender.raised = Raised("TimeoutError", NoResponse)
    /\ sender.polled
    /\ sender.record = None
    /\ records = EmptyMap

\* C28: send_file returns the final record.  After polling, its state is the
\* terminal state the poller saw and its stored_as and bytes_received are
\* those of the server's record at that poll; and it polls only when the
\* answer to the upload was not yet done or error.
C28_ReturnsFinalRecord ==
    /\ sender.polled => h[SenderHandler].response.state \notin {DONE, ERROR}
    /\ (sender.pc = "returned" /\ sender.polled)
       => /\ sender.upload_result.state \in {DONE, ERROR}
          /\ sender.upload_result.state = sender.record[1].state
          /\ sender.upload_result.stored_as = sender.record[1].stored_as
          /\ sender.upload_result.bytes_received = sender.record[1].bytes_received

\* C29: when the answer to the POST is not 2xx, send_file raises an error
\* that holds the server's detail, asks for no status and sends no second
\* POST: a file is posted at most once.
C29_RejectedUploadRaises ==
    /\ sender.posts <= 1
    /\ ( /\ sender.pc \notin {"off", "start", "post"}
         /\ h[SenderHandler].response.status \notin 200..299 )
       => /\ sender.pc = "raised"
          /\ sender.raised # None
          /\ sender.raised[1].kind = "HTTPStatusError"
          /\ sender.raised[1].response.detail = h[SenderHandler].response.detail
          /\ sender.raised[1].response.detail # <<>>
          /\ ~sender.polled
          /\ ~ENABLED send_file

\* C29 witness: the server answered 500 and send_file has raised.
C29_Witness ==
    /\ h[SenderHandler].response.status = 500
    /\ sender.pc = "raised"
    /\ sender.posts = 1

\* C31: the list resolve_inputs returns is sorted (in the order in which
\* paths compare) and no two of its entries denote the same canonicalized
\* absolute path, whatever files and directories were passed and however
\* they were spelled.
C31_SortedNoDuplicates ==
    resolver.pc = "returned"
    => \A i \in 1..Len(resolver.returned) : \A j \in (i + 1)..Len(resolver.returned) :
          /\ PathLess(resolver.returned[i], resolver.returned[j])
          /\ realpath(resolver.returned[i]) # realpath(resolver.returned[j])

\* The regular files below a directory whose extension, compared without
\* regard to case, is supported: the rule of line 57 applied to each entry.
Eligible(dir, recursive) ==
    { q \in Below(dir, recursive) :
        FS[q] = "file" /\ suffix_lower(Str(q)) \in VALID_EXTENSIONS }

\* C32: handling a directory argument adds exactly the entries of the
\* directory with a supported extension (case-insensitively), at one level
\* when recursive is false and at all depths when it is true.
C32_DirectoryEntries ==
    [][ (/\ resolver.pc = "loop"
         /\ resolver.i <= Len(resolver.paths)
         /\ is_dir(Path(resolver.paths[resolver.i]))
         /\ resolver'.i = resolver.i + 1)
        => { realpath(r) : r \in Range(resolver'.result) }
             = { realpath(r) : r \in Range(resolver.result) }
               \cup Eligible(realpath(Path(resolver.paths[resolver.i])),
                             resolver.recursive) ]_vars

\* C33: the thread that holds the registry lock is inside a registry call and
\* is not at an await (no open, read, write, close, remove or decompression
\* of its own is in flight); while the lock is held only its holder takes
\* steps, and the holder leaves the call exactly when it releases the lock:
\* the lock is held for one registry operation only.
C33_LockNotHeldDuringIO ==
    /\ [](lock # 0 => /\ h[lock].pc \in RegistryCalls
                      /\ h[lock].pc \notin Awaits
                      /\ loop = lock)
    /\ [][ lock # 0 => /\ lock' \in {0, lock}
                       /\ lock' = 0 <=> h'[lock].pc # h[lock].pc
                       /\ \A q \in Handlers \ {lock} : h'[q] = h[q] ]_vars

\* One handler is inside update while the other handler's write is in flight.
C33_Witness ==
    /\ lock = 1
    /\ h[1].pc = "update_118"
    /\ h[2].pc = "write_114"

\* A record none of whose multi-field updates is half applied: done comes
\* with the stored path, error comes with its cause.
Whole(rec) ==
    /\ rec.state = DONE => rec.stored_as # <<>>
    /\ rec.state = ERROR => rec.error # None

\* C34: registry operations are atomic per transfer id: whenever the lock is
\* free every record is whole, and a status read is answered, with no update
\* in progress, by the record as the registry holds it at that moment (so it
\* shows every update that returned before the read), never by a record with
\* only part of an update.
C34_Linearizable ==
    /\ [](lock = 0 => \A tid \in DOMAIN records : Whole(records[tid]))
    /\ [][ \A p \in Handlers :
             (h[p].pc = "return_62" /\ h'[p].pc = "responded")
             => /\ lock = 0
                /\ LET tid == h[p].transfer_id[1] IN
                   IF tid \in DOMAIN records
                   THEN /\ reply' = Reply("status", 200, records[tid])
                        /\ Whole(reply'.body)
                   ELSE reply'.status = 404 ]_vars

\* Handler 2 has read, as done and with its path, the record that handler 1
\* completed with a three-field update.
C34_Witness ==
    /\ h[1].pc = "responded"
    /\ h[2].pc = "responded"
    /\ h[1].transfer_id = h[2].transfer_id
    /\ reply.route = "status"
    /\ reply.status = 200
    /\ reply.body.state = DONE
    /\ reply.body.stored_as # <<>>
    /\ reply.body.bytes_received = MaxChunks * MaxChunkLen

\* C35: a record that has just reached done or error has been terminal for
\* less than any positive retention, so cleanup(max_age) called at that
\* moment does not select it, however long ago the record was created.
C35_RetentionFromTerminal ==
    [][ \A tid \in DOMAIN records \cap DOMAIN records' :
          (records[tid].state \notin terminal /\ records'[tid].state \in terminal)
          => \A a \in Retentions : tid \notin to_remove(records', a, now') ]_vars

\* C36: in the running server every record that has reached done or error
\* is eventually removed from the registry.
C36_TerminalRecordsSwept ==
    \A t \in TransferIds :
        (t \in DOMAIN records /\ records[t].state \in terminal)
        ~> (t \notin DOMAIN records)

\* Handler p is inside an upload whose record the registry holds.
Uploading(p) ==
    /\ h[p].pc \notin {"off", "idle", "responded"}
    /\ h[p].transfer_id[1] \in DOMAIN records

\* C37: at every moment of an upload the bytes_received of its record is at
\* most the number of body bytes the handler has written to the staging
\* file, and while the state is receiving the record is behind by the bytes
\* of the chunks written since the last multiple of 64, fewer than 64.
C37_BytesReceivedLag ==
    \A p \in Handlers :
        Uploading(p)
        => LET rec == records[h[p].transfer_id[1]] IN
           /\ rec.bytes_received <= h[p].sent
           /\ rec.state = RECEIVING
              => h[p].sent - rec.bytes_received
                   <= (h[p].chunk_count % update_every) * MaxChunkLen

\* The terminal calls the listener has received for index idx.
TerminalCalls(idx) ==
    SelectSeq(CallsOf(progress, idx),
              LAMBDA c : c.call \in {"file_done", "file_error"})

\* C38: for each input index send_batch makes at most one of file_done and
\* file_error and never both, and when it returns it has recorded exactly
\* one FileResult and made exactly one terminal call per index, also when a
\* listener method raises.
C38_OneResultPerIndex ==
    /\ \A idx \in 1..Len(batch.file_paths) : Len(TerminalCalls(idx)) <= 1
    /\ Len(batch.results) = Cardinality(batch.yielded)
    /\ BatchReturned
       => /\ Len(batch.results) = Len(batch.file_paths)
          /\ \A idx \in 1..Len(batch.file_paths) : Len(TerminalCalls(idx)) = 1

\* C39: send_batch called with no paths does not raise, calls no listener
\* method, submits nothing, and what it returns is the empty list.
C39_EmptyBatchReturns ==
    batch.file_paths = <<>>
    => /\ batch.pc \in {"start", "as_completed", "returned"}
       /\ progress = <<>>
       /\ batch.futures = <<>>
       /\ batch.results = <<>>

\* C40: a body producer calls the callback once per chunk, with the chunk's
\* length, before it yields the chunk; a file chunk is non-empty and at most
\* chunk_size long; when the producer ends, the chunks put together are the
\* source bytes and the deltas add up to their number; and no smaller
\* chunk_size would have produced fewer chunks of the same file.
C40_ChunksCoverSource ==
    producer.pc # "off"
    => /\ producer.callback
          => /\ Len(producer.deltas)
                  = Len(producer.yielded) + (IF producer.pc = "yield" THEN 1 ELSE 0)
             /\ \A k \in 1..Len(producer.yielded) :
                   producer.deltas[k] = Len(producer.yielded[k])
       /\ ~producer.callback => producer.deltas = <<>>
       /\ producer.kind = "file"
          => \A k \in 1..Len(producer.yielded) :
                /\ producer.yielded[k] # <<>>
                /\ Len(producer.yielded[k]) <= producer.chunk_size
       /\ producer.pc = "done"
          => /\ Flatten(producer.yielded) = producer.source
             /\ producer.callback => Sum(producer.deltas) = Len(producer.source)
             /\ producer.kind = "file"
                => \A smaller \in ChunkSizes :
                      smaller < producer.chunk_size
                      => Len(file_chunks(producer.source, 0, smaller))
                           >= Len(producer.yielded)

====
